---- MODULE Spec2Model ----
(***************************************************************************)
(* Model of the analytical core of unklbee/lmcounter:                      *)
(*   core/tracker.py      VehicleTracker  (identities across frames)       *)
(*   core/roi_manager.py  ROIManager      (zones, lines, editing, geometry)*)
(*   core/counter.py      VehicleCounter  (zone entries, line crossings)   *)
(*   ui/gui_app.py        ProcessingThread._process_single_frame           *)
(* Every object is one record variable whose fields carry the names of the *)
(* Python attributes.  A Python dict is a function whose DOMAIN is the set *)
(* of keys; the integer ids used as keys are handed out in increasing      *)
(* order, so ascending key order is the dict's insertion order.            *)
(***************************************************************************)
EXTENDS Integers, Sequences, FiniteSets, TLC

\* tracker, roi_manager, counter: the three objects of the core
\* now:    time.time(), in whole seconds
\* last:   the last call made on the core, its arguments and what it returned
\* seen:   history, every track id that has been resident since construction
\* misses: history, for every resident track the number of consecutive
\*         VehicleTracker.update calls that left it without an accepted pair
\* frame:  history, the zones that were enabled in the last
\*         VehicleCounter.update call made since the last reset of the counter
\* threads: the GUI thread's position in its handler and the processing
\*         threads it has started, the last of them being self.processing_thread
VARIABLES tracker, roi_manager, counter, now, last, seen, misses, frame, threads

vars == <<tracker, roi_manager, counter, now, last, seen, misses, frame, threads>>

-----------------------------------------------------------------------------
(* Bounds of the model *)

\* ids a tracker hands out before the model stops creating tracks
MaxIds == 2
\* detections in one frame of a tracker that runs frame after frame
MaxDets == 1
\* tracks and detections of the single update examined by SpecMatching
MatchTracks == 2
MatchDets == 2

\* zone entries and line crossings a counter counts before the model stops
MaxCount == 2
\* number of track ids the counter is fed
MaxObjects == 1
\* latest reading of the clock
MaxTime == 2
\* zones and lines a registry stores before the model stops finishing shapes
MaxShapes == 1
\* points the editing buffer takes before the model stops adding points
MaxPoints == 3
\* zone entries a counter counts in a burst before the model stops
MaxBurst == 11
\* largest coordinate of the boxes given to calculate_iou alone
MaxCoord == 2
\* processing threads the GUI starts
MaxThreads == 2
\* largest coordinate of the points a movement is tested between
MaxGrid == 2

\* constructor arguments of VehicleTracker, set small for the model
max_disappeared == 1
track_history_size == 1
max_distance == 2
\* min_iou_threshold = 0.3 as the fraction MinIouNum / MinIouDen
MinIouNum == 3
MinIouDen == 10

-----------------------------------------------------------------------------
(* Generic helpers for dicts and lists *)

Put(f, k, v) == [x \in (DOMAIN f) \cup {k} |-> IF x = k THEN v ELSE f[x]]

Del(f, k) == [x \in (DOMAIN f) \ {k} |-> f[x]]

\* dict.get(k, d) and defaultdict read without the insertion side effect
Get(f, k, d) == IF k \in DOMAIN f THEN f[k] ELSE d

Min(S) == CHOOSE x \in S : \A y \in S : x <= y

Max(S) == CHOOSE x \in S : \A y \in S : x >= y

RECURSIVE Ascending(_)
\* the keys of an int-keyed dict in insertion order
Ascending(S) == IF S = {} THEN <<>> ELSE <<Min(S)>> \o Ascending(S \ {Min(S)})

Range(s) == {s[i] : i \in DOMAIN s}

\* all sequences over S of length 0..n
SeqUpTo(S, n) == UNION {[1..k -> S] : k \in 0..n}

-----------------------------------------------------------------------------
(* core/tracker.py *)

\* the boxes the detector may report: <<x1, y1, x2, y2>>
BoxA == <<0, 0, 4, 4>>
BoxB == <<2, 0, 6, 4>>
BoxC == <<0, 0, 8, 4>>
BoxE == <<10, 10, 14, 14>>
Boxes == {BoxA, BoxB, BoxC, BoxE}

\* (class_id, class_name) pairs of the detector
Classes == {<<2, "car">>, <<7, "truck">>}

\* what the detector may report for one object: a box and its class
Detections ==
    {[box |-> BoxA, cls |-> <<2, "car">>], [box |-> BoxB, cls |-> <<7, "truck">>],
     [box |-> BoxC, cls |-> <<7, "truck">>], [box |-> BoxE, cls |-> <<2, "car">>]}

\* the detections fed to a tracker that runs frame after frame
FrameDetections == {d \in Detections : d.box \in {BoxA, BoxC, BoxE}}

TrackerInit ==
    [next_object_id |-> 0,
     objects        |-> <<>>,
     disappeared    |-> <<>>,
     class_ids      |-> <<>>,
     class_names    |-> <<>>,
     trajectories   |-> <<>>]

get_center(bbox) == <<(bbox[1] + bbox[3]) \div 2, (bbox[2] + bbox[4]) \div 2>>

\* a full deque that refuses the new point instead of dropping its oldest
DequeAppend_keeps_oldest(q, x) ==
    IF Len(q) < track_history_size THEN Append(q, x) ELSE q

\* deque(maxlen = track_history_size).append
DequeAppend(q, x) ==
    IF Len(q) < track_history_size THEN Append(q, x) ELSE Append(Tail(q), x)

\* register as it would be if it numbered a track by the size of the table
register_by_len(self, bbox, class_id, class_name) ==
    LET id == Cardinality(DOMAIN self.objects) IN
    [self EXCEPT
        !.objects = Put(@, id, bbox),
        !.class_ids = Put(@, id, class_id),
        !.class_names = Put(@, id, class_name),
        !.trajectories = Put(@, id, DequeAppend(Get(@, id, <<>>), get_center(bbox))),
        !.next_object_id = id + 1]

register(self, bbox, class_id, class_name) ==
    LET id == self.next_object_id IN
    [self EXCEPT
        !.objects = Put(@, id, bbox),
        !.class_ids = Put(@, id, class_id),
        !.class_names = Put(@, id, class_name),
        !.trajectories = Put(@, id, DequeAppend(Get(@, id, <<>>), get_center(bbox))),
        !.next_object_id = id + 1]

\* the five del statements in order; the first missing key raises KeyError and
\* the deletions already done stay done.  Result: [self, raised]
deregister(self, object_id) ==
    IF object_id \notin DOMAIN self.objects
    THEN [self |-> self, raised |-> "KeyError"]
    ELSE IF object_id \notin DOMAIN self.disappeared
    THEN [self |-> [self EXCEPT !.objects = Del(@, object_id)], raised |-> "KeyError"]
    ELSE IF object_id \notin DOMAIN self.class_ids
    THEN [self |-> [self EXCEPT !.objects = Del(@, object_id),
                                !.disappeared = Del(@, object_id)],
          raised |-> "KeyError"]
    ELSE IF object_id \notin DOMAIN self.class_names
    THEN [self |-> [self EXCEPT !.objects = Del(@, object_id),
                                !.disappeared = Del(@, object_id),
                                !.class_ids = Del(@, object_id)],
          raised |-> "KeyError"]
    ELSE IF object_id \notin DOMAIN self.trajectories
    THEN [self |-> [self EXCEPT !.objects = Del(@, object_id),
                                !.disappeared = Del(@, object_id),
                                !.class_ids = Del(@, object_id),
                                !.class_names = Del(@, object_id)],
          raised |-> "KeyError"]
    ELSE [self |-> [self EXCEPT !.objects = Del(@, object_id),
                                !.disappeared = Del(@, object_id),
                                !.class_ids = Del(@, object_id),
                                !.class_names = Del(@, object_id),
                                !.trajectories = Del(@, object_id)],
          raised |-> "none"]

\* IoU as the exact fraction <<intersection, union>>; <<0, 1>> when the boxes do
\* not overlap.  A zero union is the float division by zero of line 118.
calculate_iou(bbox1, bbox2) ==
    LET x_left == IF bbox1[1] > bbox2[1] THEN bbox1[1] ELSE bbox2[1]
        y_top == IF bbox1[2] > bbox2[2] THEN bbox1[2] ELSE bbox2[2]
        x_right == IF bbox1[3] < bbox2[3] THEN bbox1[3] ELSE bbox2[3]
        y_bottom == IF bbox1[4] < bbox2[4] THEN bbox1[4] ELSE bbox2[4]
        intersection_area == (x_right - x_left) * (y_bottom - y_top)
        bbox1_area == (bbox1[3] - bbox1[1]) * (bbox1[4] - bbox1[2])
        bbox2_area == (bbox2[3] - bbox2[1]) * (bbox2[4] - bbox2[2])
    IN IF x_right < x_left \/ y_bottom < y_top
       THEN <<0, 1>>
       ELSE <<intersection_area, bbox1_area + bbox2_area - intersection_area>>

IouRaises(bbox1, bbox2) == calculate_iou(bbox1, bbox2)[2] = 0

\* the square of calculate_distance
Distance2(center1, center2) ==
    (center1[1] - center2[1]) * (center1[1] - center2[1])
    + (center1[2] - center2[2]) * (center1[2] - center2[2])

\* the results dict of get_tracking_results for the listed ids
TrackingResults(self, act) ==
    [object_ids   |-> act,
     bboxes       |-> [i \in DOMAIN act |-> self.objects[act[i]]],
     class_ids    |-> [i \in DOMAIN act |-> self.class_ids[act[i]]],
     class_names  |-> [i \in DOMAIN act |-> self.class_names[act[i]]],
     trajectories |-> [i \in DOMAIN act |-> self.trajectories[act[i]]],
     centers      |-> [i \in DOMAIN act |-> get_center(self.objects[act[i]])]]

\* get_tracking_results without the test of self.disappeared
ActiveIds_all_resident(self) == Ascending(DOMAIN self.objects)

\* the tracks not skipped by "if self.disappeared[object_id] > 0", in dict order
ActiveIds(self) ==
    SelectSeq(Ascending(DOMAIN self.objects), LAMBDA id : Get(self.disappeared, id, 0) = 0)

\* get_tracking_results.  Reading self.disappeared[object_id] on the defaultdict
\* inserts 0 for a missing key.  Result: [self, results]
get_tracking_results(self) ==
    [self |-> [self EXCEPT !.disappeared =
                  [id \in (DOMAIN @) \cup (DOMAIN self.objects) |-> Get(@, id, 0)]],
     results |-> TrackingResults(self, ActiveIds(self))]

\* "if self.disappeared[object_id] > self.max_disappeared: self.deregister(...)"
DeregisterIfOver(self, object_id) ==
    IF self.disappeared[object_id] > max_disappeared
    THEN deregister(self, object_id).self
    ELSE self

\* an update that leaves the tracks it could not match as they were
MarkDisappeared_not_counted(self, object_id) == self

\* self.disappeared[object_id] += 1, then deregister when over max_disappeared
MarkDisappeared(self, object_id) ==
    DeregisterIfOver([self EXCEPT !.disappeared =
                         Put(@, object_id, Get(@, object_id, 0) + 1)], object_id)

RECURSIVE MarkAllDisappeared(_, _)
MarkAllDisappeared(self, ids) ==
    IF ids = <<>> THEN self
    ELSE MarkAllDisappeared(MarkDisappeared(self, Head(ids)), Tail(ids))

RECURSIVE RegisterAll(_, _)
RegisterAll(self, dets) ==
    IF dets = <<>> THEN self
    ELSE RegisterAll(register(self, Head(dets).box, Head(dets).cls[1], Head(dets).cls[2]),
                     Tail(dets))

\* (row, col) index pairs of an nr x nc matrix in row-major order (np.where)
RowMajor(nr, nc) ==
    [k \in 1..(nr * nc) |-> <<((k - 1) \div nc) + 1, ((k - 1) % nc) + 1>>]

\* cost_matrix = (1 - iou) * (distance / max_distance), kept exact as the
\* fraction <<num, den>> of (cost * max_distance) squared: max_distance > 0
\* scales every entry alike and so has no part in the order of the costs
CostFraction(iou, d2) ==
    <<(iou[2] - iou[1]) * (iou[2] - iou[1]) * d2, iou[2] * iou[2]>>

CostOf(existing_bbox, new_bbox) ==
    CostFraction(calculate_iou(existing_bbox, new_bbox),
                 Distance2(get_center(existing_bbox), get_center(new_bbox)))

FractionLess(c1, c2) == c1[1] * c2[2] < c2[1] * c1[2]

\* cost_matrix[p] < cost_matrix[q] for the index pairs p and q
CostLess(p, q, existing_bboxes, bboxes) ==
    FractionLess(CostOf(existing_bboxes[p[1]], bboxes[p[2]]),
                 CostOf(existing_bboxes[q[1]], bboxes[q[2]]))

\* the threshold test with >= in place of >
IouAbove_or_equal(iou) == iou[1] * MinIouDen >= MinIouNum * iou[2]

IouAbove(iou) == iou[1] * MinIouDen > MinIouNum * iou[2]

\* iou_matrix > min_iou_threshold
IsCandidate(existing_bbox, new_bbox) == IouAbove(calculate_iou(existing_bbox, new_bbox))

RemoveAt(s, k) == [i \in 1..(Len(s) - 1) |-> IF i < k THEN s[i] ELSE s[i + 1]]

\* the index in pairs of the pair sorted() puts first: the earliest of those
\* of least cost (the sort is stable)
FirstByCost(pairs, existing_bboxes, bboxes) ==
    CHOOSE i \in DOMAIN pairs :
        /\ \A j \in DOMAIN pairs : ~CostLess(pairs[j], pairs[i], existing_bboxes, bboxes)
        /\ \A j \in 1..(i - 1) : CostLess(pairs[i], pairs[j], existing_bboxes, bboxes)

RECURSIVE SortedByCost(_, _, _)
MoveToFront(pairs, k, existing_bboxes, bboxes) ==
    <<pairs[k]>> \o SortedByCost(RemoveAt(pairs, k), existing_bboxes, bboxes)

\* sorted(zip(rows, cols), key = cost)
SortedByCost(pairs, existing_bboxes, bboxes) ==
    IF pairs = <<>> THEN <<>>
    ELSE MoveToFront(pairs, FirstByCost(pairs, existing_bboxes, bboxes),
                     existing_bboxes, bboxes)

RECURSIVE GreedyMatches(_, _, _)
\* lines 193-200: accept a pair unless its row or its column is used
GreedyMatches(pairs, used_rows, used_cols) ==
    IF pairs = <<>> THEN <<>>
    ELSE IF Head(pairs)[1] \in used_rows \/ Head(pairs)[2] \in used_cols
    THEN GreedyMatches(Tail(pairs), used_rows, used_cols)
    ELSE <<Head(pairs)>> \o GreedyMatches(Tail(pairs), used_rows \cup {Head(pairs)[1]},
                                          used_cols \cup {Head(pairs)[2]})

\* np.where(iou_matrix > min_iou_threshold): the candidate pairs, row-major
CandidatePairs(existing_bboxes, bboxes) ==
    SelectSeq(RowMajor(Len(existing_bboxes), Len(bboxes)),
              LAMBDA p : IsCandidate(existing_bboxes[p[1]], bboxes[p[2]]))

\* the accepted (row, col) pairs of one update, in the order of acceptance
Matches(existing_bboxes, bboxes) ==
    GreedyMatches(SortedByCost(CandidatePairs(existing_bboxes, bboxes),
                               existing_bboxes, bboxes), {}, {})

\* lines 219-231 without the reset of the disappeared counter
UpdateOneMatched_keeps_counter(self, object_id, det) ==
    [self EXCEPT
        !.objects = Put(@, object_id, det.box),
        !.class_ids = Put(@, object_id, det.cls[1]),
        !.class_names = Put(@, object_id, det.cls[2]),
        !.trajectories = Put(@, object_id,
                             DequeAppend(Get(@, object_id, <<>>), get_center(det.box)))]

\* lines 219-231 for one accepted pair
UpdateOneMatched(self, object_id, det) ==
    [self EXCEPT
        !.objects = Put(@, object_id, det.box),
        !.disappeared = Put(@, object_id, 0),
        !.class_ids = Put(@, object_id, det.cls[1]),
        !.class_names = Put(@, object_id, det.cls[2]),
        !.trajectories = Put(@, object_id,
                             DequeAppend(Get(@, object_id, <<>>), get_center(det.box)))]

RECURSIVE UpdateMatched(_, _, _, _)
\* lines 217-231
UpdateMatched(self, matches, object_ids, dets) ==
    IF matches = <<>> THEN self
    ELSE UpdateMatched(UpdateOneMatched(self, object_ids[Head(matches)[1]],
                                        dets[Head(matches)[2]]),
                       Tail(matches), object_ids, dets)

Returned(r) == [self |-> r.self, results |-> r.results, raised |-> "none"]

\* the entries of a list at the indices of idx that are not in used, ascending
Unmatched(list, used) ==
    SelectSeq([i \in DOMAIN list |-> <<i, list[i]>>], LAMBDA e : e[1] \notin used)

Seconds(pairs) == [i \in DOMAIN pairs |-> pairs[i][2]]

\* lines 202-234 once the matches are known
ApplyMatches(self, dets, object_ids, matches) ==
    Returned(get_tracking_results(
        UpdateMatched(
            RegisterAll(
                MarkAllDisappeared(self,
                    Seconds(Unmatched(object_ids, {m[1] : m \in Range(matches)}))),
                Seconds(Unmatched(dets, {m[2] : m \in Range(matches)}))),
            matches, object_ids, dets)))

\* lines 164-234 with the two lists of boxes at hand
UpdateExisting(self, dets, object_ids, existing_bboxes, bboxes) ==
    IF \E i \in DOMAIN existing_bboxes, j \in DOMAIN bboxes :
           IouRaises(existing_bboxes[i], bboxes[j])
    THEN [self |-> self, results |-> <<>>, raised |-> "ZeroDivisionError"]
    ELSE ApplyMatches(self, dets, object_ids, Matches(existing_bboxes, bboxes))

ExistingBoxes(self) ==
    [i \in 1..Cardinality(DOMAIN self.objects) |->
        self.objects[Ascending(DOMAIN self.objects)[i]]]

BoxesOf(dets) == [j \in DOMAIN dets |-> dets[j].box]

\* VehicleTracker.update on the detections dets (a list of [box, cls]).
\* Result: [self, results, raised]
update(self, dets) ==
    IF Len(dets) = 0
    THEN Returned(get_tracking_results(
             MarkAllDisappeared(self, Ascending(DOMAIN self.disappeared))))
    ELSE IF DOMAIN self.objects = {}
    THEN Returned(get_tracking_results(RegisterAll(self, dets)))
    ELSE UpdateExisting(self, dets, Ascending(DOMAIN self.objects),
                        ExistingBoxes(self), BoxesOf(dets))

\* reset that clears the tables and goes on numbering where it was
tracker_reset_keeps_numbering(self) ==
    [TrackerInit EXCEPT !.next_object_id = self.next_object_id]

\* VehicleTracker.reset
tracker_reset(self) == TrackerInit

-----------------------------------------------------------------------------
(* core/roi_manager.py *)

\* uuid.uuid4() is modelled as a fresh integer: uuids counts the draws so far
ROIManagerInit ==
    [rois           |-> <<>>,
     counting_lines |-> <<>>,
     editing_mode   |-> "NONE",
     editing_id     |-> "None",
     temp_points    |-> <<>>,
     uuids          |-> 0]

start_roi_editing(self) ==
    [self EXCEPT !.editing_mode = "ROI", !.temp_points = <<>>]

start_line_editing(self) ==
    [self EXCEPT !.editing_mode = "LINE", !.temp_points = <<>>]

\* add_point without the limit of two points for a line
add_point_unlimited(self, point) ==
    IF self.editing_mode = "NONE"
    THEN [self |-> self, ret |-> FALSE]
    ELSE [self |-> [self EXCEPT !.temp_points = Append(@, point)], ret |-> TRUE]

\* Result: [self, ret]
add_point(self, point) ==
    IF self.editing_mode = "NONE"
    THEN [self |-> self, ret |-> FALSE]
    ELSE LET appended == Append(self.temp_points, point)
             kept == IF self.editing_mode = "LINE" /\ Len(appended) > 2
                     THEN SubSeq(appended, 1, 2)
                     ELSE appended
         IN [self |-> [self EXCEPT !.temp_points = kept], ret |-> TRUE]

\* finish_editing that leaves the editing session when the point count is wrong
finish_editing_gives_up(self) ==
    IF self.editing_mode = "NONE"
    THEN [self |-> self, ret |-> FALSE, id |-> "None"]
    ELSE IF \/ self.editing_mode = "ROI" /\ Len(self.temp_points) < 3
            \/ self.editing_mode = "LINE" /\ Len(self.temp_points) # 2
    THEN [self |-> [self EXCEPT !.editing_mode = "NONE", !.temp_points = <<>>],
          ret |-> FALSE, id |-> "None"]
    ELSE LET new_id == self.uuids + 1
             saved ==
                 IF self.editing_mode = "ROI"
                 THEN [self EXCEPT !.rois = Put(@, new_id,
                          [name      |-> <<"ROI", Cardinality(DOMAIN self.rois) + 1>>,
                           points    |-> self.temp_points,
                           direction |-> "bidirectional",
                           enabled   |-> TRUE])]
                 ELSE [self EXCEPT !.counting_lines = Put(@, new_id,
                          [name      |-> <<"Line", Cardinality(DOMAIN self.counting_lines) + 1>>,
                           points    |-> self.temp_points,
                           direction |-> "bidirectional",
                           enabled   |-> TRUE])]
         IN [self |-> [saved EXCEPT !.uuids = new_id,
                                    !.editing_mode = "NONE",
                                    !.temp_points = <<>>,
                                    !.editing_id = "None"],
             ret |-> TRUE,
             id |-> new_id]

\* finish_editing that saves the shape and forgets to reset the editing state
finish_editing_stays(self) ==
    IF self.editing_mode = "NONE"
    THEN [self |-> self, ret |-> FALSE, id |-> "None"]
    ELSE IF \/ self.editing_mode = "ROI" /\ Len(self.temp_points) < 3
            \/ self.editing_mode = "LINE" /\ Len(self.temp_points) # 2
    THEN [self |-> self, ret |-> FALSE, id |-> "None"]
    ELSE LET new_id == self.uuids + 1
             saved ==
                 IF self.editing_mode = "ROI"
                 THEN [self EXCEPT !.rois = Put(@, new_id,
                          [name      |-> <<"ROI", Cardinality(DOMAIN self.rois) + 1>>,
                           points    |-> self.temp_points,
                           direction |-> "bidirectional",
                           enabled   |-> TRUE])]
                 ELSE [self EXCEPT !.counting_lines = Put(@, new_id,
                          [name      |-> <<"Line", Cardinality(DOMAIN self.counting_lines) + 1>>,
                           points    |-> self.temp_points,
                           direction |-> "bidirectional",
                           enabled   |-> TRUE])]
         IN [self |-> [saved EXCEPT !.uuids = new_id], ret |-> TRUE, id |-> new_id]

\* Result: [self, ret, id]
finish_editing(self) ==
    IF self.editing_mode = "NONE"
    THEN [self |-> self, ret |-> FALSE, id |-> "None"]
    ELSE IF self.editing_mode = "ROI" /\ Len(self.temp_points) < 3
    THEN [self |-> self, ret |-> FALSE, id |-> "None"]
    ELSE IF self.editing_mode = "LINE" /\ Len(self.temp_points) # 2
    THEN [self |-> self, ret |-> FALSE, id |-> "None"]
    ELSE LET new_id == self.uuids + 1
             saved ==
                 IF self.editing_mode = "ROI"
                 THEN [self EXCEPT !.rois = Put(@, new_id,
                          [name      |-> <<"ROI", Cardinality(DOMAIN self.rois) + 1>>,
                           points    |-> self.temp_points,
                           direction |-> "bidirectional",
                           enabled   |-> TRUE])]
                 ELSE [self EXCEPT !.counting_lines = Put(@, new_id,
                          [name      |-> <<"Line", Cardinality(DOMAIN self.counting_lines) + 1>>,
                           points    |-> self.temp_points,
                           direction |-> "bidirectional",
                           enabled   |-> TRUE])]
         IN [self |-> [saved EXCEPT !.uuids = new_id,
                                    !.editing_mode = "NONE",
                                    !.temp_points = <<>>,
                                    !.editing_id = "None"],
             ret |-> TRUE,
             id |-> new_id]

\* cancel_editing that leaves the buffered points in place
cancel_editing_keeps_points(self) ==
    IF self.editing_mode = "NONE"
    THEN [self |-> self, ret |-> FALSE]
    ELSE [self |-> [self EXCEPT !.editing_mode = "NONE", !.editing_id = "None"],
          ret |-> TRUE]

\* Result: [self, ret]
cancel_editing(self) ==
    IF self.editing_mode = "NONE"
    THEN [self |-> self, ret |-> FALSE]
    ELSE [self |-> [self EXCEPT !.editing_mode = "NONE",
                                !.temp_points = <<>>,
                                !.editing_id = "None"],
          ret |-> TRUE]

delete_roi(self, roi_id) ==
    IF roi_id \in DOMAIN self.rois
    THEN [self |-> [self EXCEPT !.rois = Del(@, roi_id)], ret |-> TRUE]
    ELSE [self |-> self, ret |-> FALSE]

delete_line(self, line_id) ==
    IF line_id \in DOMAIN self.counting_lines
    THEN [self |-> [self EXCEPT !.counting_lines = Del(@, line_id)], ret |-> TRUE]
    ELSE [self |-> self, ret |-> FALSE]

\* an update that also takes "points" from data
ApplyData_with_points(item, data) ==
    [name      |-> Get(data, "name", item.name),
     points    |-> Get(data, "points", item.points),
     direction |-> Get(data, "direction", item.direction),
     enabled   |-> Get(data, "enabled", item.enabled)]

\* the three "if key in data" assignments; data is a dict with any of the keys
ApplyData(item, data) ==
    [name      |-> Get(data, "name", item.name),
     points    |-> item.points,
     direction |-> Get(data, "direction", item.direction),
     enabled   |-> Get(data, "enabled", item.enabled)]

update_roi(self, roi_id, data) ==
    IF roi_id \notin DOMAIN self.rois
    THEN [self |-> self, ret |-> FALSE]
    ELSE [self |-> [self EXCEPT !.rois[roi_id] = ApplyData(@, data)], ret |-> TRUE]

update_line(self, line_id, data) ==
    IF line_id \notin DOMAIN self.counting_lines
    THEN [self |-> self, ret |-> FALSE]
    ELSE [self |-> [self EXCEPT !.counting_lines[line_id] = ApplyData(@, data)], ret |-> TRUE]

RECURSIVE PolygonCrossings(_, _, _)
\* cv2.pointPolygonTest(contour, pt, False) on an int32 contour and an integer
\* point, edge i running from contour[i-1] (the last vertex for i = 1) to
\* contour[i]: -1 as soon as the point lies on an edge, otherwise the number of
\* edges a ray from the point crosses
PolygonCrossings(contour, pt, i) ==
    IF i > Len(contour) THEN 0
    ELSE LET v0 == IF i = 1 THEN contour[Len(contour)] ELSE contour[i - 1]
             v == contour[i]
             skipped == \/ (v0[2] <= pt[2] /\ v[2] <= pt[2])
                        \/ (v0[2] > pt[2] /\ v[2] > pt[2])
                        \/ (v0[1] < pt[1] /\ v[1] < pt[1])
             on_vertex_or_flat ==
                 /\ pt[2] = v[2]
                 /\ \/ pt[1] = v[1]
                    \/ /\ pt[2] = v0[2]
                       /\ \/ (v0[1] <= pt[1] /\ pt[1] <= v[1])
                          \/ (v[1] <= pt[1] /\ pt[1] <= v0[1])
             dist == (pt[2] - v0[2]) * (v[1] - v0[1]) - (pt[1] - v0[1]) * (v[2] - v0[2])
             signed == IF v[2] < v0[2] THEN 0 - dist ELSE dist
             rest == PolygonCrossings(contour, pt, i + 1)
         IN IF skipped
            THEN (IF on_vertex_or_flat THEN -1 ELSE rest)
            ELSE IF dist = 0 THEN -1
            ELSE IF rest = -1 THEN -1
            ELSE rest + (IF signed > 0 THEN 1 ELSE 0)

\* +1 inside, 0 on an edge, -1 outside
pointPolygonTest(contour, pt) ==
    IF Len(contour) = 0 THEN -1
    ELSE LET c == PolygonCrossings(contour, pt, 1)
         IN IF c = -1 THEN 0 ELSE IF c % 2 = 0 THEN -1 ELSE 1

\* is_point_in_roi that answers False for a disabled zone
is_point_in_roi_enabled_only(self, point, roi_id) ==
    IF roi_id \notin DOMAIN self.rois
    THEN FALSE
    ELSE /\ self.rois[roi_id].enabled
         /\ pointPolygonTest(self.rois[roi_id].points, point) >= 0

\* is_point_in_roi that tests every stored zone when the id names none
is_point_in_roi_any_zone(self, point, roi_id) ==
    IF roi_id \notin DOMAIN self.rois
    THEN \E id \in DOMAIN self.rois : pointPolygonTest(self.rois[id].points, point) >= 0
    ELSE pointPolygonTest(self.rois[roi_id].points, point) >= 0

is_point_in_roi(self, point, roi_id) ==
    IF roi_id \notin DOMAIN self.rois
    THEN FALSE
    ELSE pointPolygonTest(self.rois[roi_id].points, point) >= 0

ccw(A, B, C) == (C[2] - A[2]) * (B[1] - A[1]) > (B[2] - A[2]) * (C[1] - A[1])

check_lines_intersection(p1, p2, q1, q2) ==
    /\ ccw(p1, q1, q2) # ccw(p2, q1, q2)
    /\ ccw(p1, p2, q1) # ccw(p1, p2, q2)

\* check_line_crossing with the comparison of "north_south" turned around
check_line_crossing_turned(self, prev_point, curr_point, line_id) ==
    IF line_id \notin DOMAIN self.counting_lines THEN 0
    ELSE LET line_points == self.counting_lines[line_id].points
             direction == self.counting_lines[line_id].direction
         IN IF Len(line_points) # 2 THEN 0
            ELSE IF ~check_lines_intersection(line_points[1], line_points[2],
                                              prev_point, curr_point)
            THEN 0
            ELSE IF direction = "north_south"
            THEN (IF prev_point[1] > curr_point[1] THEN 1 ELSE -1)
            ELSE IF direction = "east_west"
            THEN (IF prev_point[2] > curr_point[2] THEN 1 ELSE -1)
            ELSE 1

check_line_crossing(self, prev_point, curr_point, line_id) ==
    IF line_id \notin DOMAIN self.counting_lines THEN 0
    ELSE LET line_points == self.counting_lines[line_id].points
             direction == self.counting_lines[line_id].direction
         IN IF Len(line_points) # 2 THEN 0
            ELSE IF ~check_lines_intersection(line_points[1], line_points[2],
                                              prev_point, curr_point)
            THEN 0
            ELSE IF direction = "north_south"
            THEN (IF prev_point[1] < curr_point[1] THEN 1 ELSE -1)
            ELSE IF direction = "east_west"
            THEN (IF prev_point[2] > curr_point[2] THEN 1 ELSE -1)
            ELSE 1

-----------------------------------------------------------------------------
(* core/counter.py *)

max_events == 10
\* event_duration = 2.0 seconds; the clock of the model counts whole seconds
event_duration == 2

VehicleCounterInit ==
    [roi_counts     |-> <<>>,
     line_counts    |-> <<>>,
     objects_in_roi |-> <<>>,
     last_positions |-> <<>>,
     count_events   |-> <<>>]

\* _check_roi_counts that counts a track on every frame it is inside: the test
\* "object_id not in self.objects_in_roi[roi_id]" left out
CheckOneRoi_every_frame(st, rm, roi_id, object_id, centroid, t) ==
    IF ~rm.rois[roi_id].enabled THEN st
    ELSE LET self == st.self
             in_roi == is_point_in_roi(rm, centroid, roi_id)
             members == Get(self.objects_in_roi, roi_id, {})
             touched == [self EXCEPT !.objects_in_roi = Put(@, roi_id, members)]
         IN IF in_roi
            THEN LET count == Get(self.roi_counts, roi_id, 0) + 1
                     event == [type |-> "roi", id |-> roi_id, object_id |-> object_id,
                               position |-> centroid, timestamp |-> t,
                               direction |-> 0, count |-> count]
                 IN [self |-> [touched EXCEPT
                                  !.objects_in_roi[roi_id] = members \cup {object_id},
                                  !.roi_counts = Put(@, roi_id, count),
                                  !.count_events = Append(@, event)],
                     roi_events |-> Append(st.roi_events, event)]
            ELSE [self |-> [touched EXCEPT !.objects_in_roi[roi_id] = members \ {object_id}],
                  roi_events |-> st.roi_events]

\* _check_roi_counts that takes a track off the count when it leaves the zone
CheckOneRoi_occupancy(st, rm, roi_id, object_id, centroid, t) ==
    IF ~rm.rois[roi_id].enabled THEN st
    ELSE LET self == st.self
             in_roi == is_point_in_roi(rm, centroid, roi_id)
             members == Get(self.objects_in_roi, roi_id, {})
             touched == [self EXCEPT !.objects_in_roi = Put(@, roi_id, members)]
         IN IF in_roi /\ object_id \notin members
            THEN LET count == Get(self.roi_counts, roi_id, 0) + 1
                     event == [type |-> "roi", id |-> roi_id, object_id |-> object_id,
                               position |-> centroid, timestamp |-> t,
                               direction |-> 0, count |-> count]
                 IN [self |-> [touched EXCEPT
                                  !.objects_in_roi[roi_id] = members \cup {object_id},
                                  !.roi_counts = Put(@, roi_id, count),
                                  !.count_events = Append(@, event)],
                     roi_events |-> Append(st.roi_events, event)]
            ELSE IF ~in_roi /\ object_id \in members
            THEN [self |-> [touched EXCEPT
                               !.objects_in_roi[roi_id] = members \ {object_id},
                               !.roi_counts = Put(@, roi_id, Get(self.roi_counts, roi_id, 0) - 1)],
                  roi_events |-> st.roi_events]
            ELSE [self |-> touched, roi_events |-> st.roi_events]

\* _check_roi_counts with the event built before the increment, so that it
\* carries the count the zone had until then
CheckOneRoi_count_before(st, rm, roi_id, object_id, centroid, t) ==
    IF ~rm.rois[roi_id].enabled THEN st
    ELSE LET self == st.self
             in_roi == is_point_in_roi(rm, centroid, roi_id)
             members == Get(self.objects_in_roi, roi_id, {})
             touched == [self EXCEPT !.objects_in_roi = Put(@, roi_id, members)]
         IN IF in_roi /\ object_id \notin members
            THEN LET count == Get(self.roi_counts, roi_id, 0) + 1
                     event == [type |-> "roi", id |-> roi_id, object_id |-> object_id,
                               position |-> centroid, timestamp |-> t,
                               direction |-> 0, count |-> count - 1]
                 IN [self |-> [touched EXCEPT
                                  !.objects_in_roi[roi_id] = members \cup {object_id},
                                  !.roi_counts = Put(@, roi_id, count),
                                  !.count_events = Append(@, event)],
                     roi_events |-> Append(st.roi_events, event)]
            ELSE IF ~in_roi /\ object_id \in members
            THEN [self |-> [touched EXCEPT !.objects_in_roi[roi_id] = members \ {object_id}],
                  roi_events |-> st.roi_events]
            ELSE [self |-> touched, roi_events |-> st.roi_events]

\* _check_roi_counts without the elif branch: a track that leaves stays a member
CheckOneRoi_keeps_member(st, rm, roi_id, object_id, centroid, t) ==
    IF ~rm.rois[roi_id].enabled THEN st
    ELSE LET self == st.self
             in_roi == is_point_in_roi(rm, centroid, roi_id)
             members == Get(self.objects_in_roi, roi_id, {})
             touched == [self EXCEPT !.objects_in_roi = Put(@, roi_id, members)]
         IN IF in_roi /\ object_id \notin members
            THEN LET count == Get(self.roi_counts, roi_id, 0) + 1
                     event == [type |-> "roi", id |-> roi_id, object_id |-> object_id,
                               position |-> centroid, timestamp |-> t,
                               direction |-> 0, count |-> count]
                 IN [self |-> [touched EXCEPT
                                  !.objects_in_roi[roi_id] = members \cup {object_id},
                                  !.roi_counts = Put(@, roi_id, count),
                                  !.count_events = Append(@, event)],
                     roi_events |-> Append(st.roi_events, event)]
            ELSE [self |-> touched, roi_events |-> st.roi_events]

\* One pass of the loop body of _check_roi_counts for the zone roi_id.
\* st = [self, roi_events]; t is time.time()
CheckOneRoi(st, rm, roi_id, object_id, centroid, t) ==
    IF ~rm.rois[roi_id].enabled THEN st
    ELSE LET self == st.self
             in_roi == is_point_in_roi(rm, centroid, roi_id)
             \* reading the defaultdict inserts an empty set for a new key
             members == Get(self.objects_in_roi, roi_id, {})
             touched == [self EXCEPT !.objects_in_roi = Put(@, roi_id, members)]
         IN IF in_roi /\ object_id \notin members
            THEN LET count == Get(self.roi_counts, roi_id, 0) + 1
                     event == [type |-> "roi", id |-> roi_id, object_id |-> object_id,
                               position |-> centroid, timestamp |-> t,
                               direction |-> 0, count |-> count]
                 IN [self |-> [touched EXCEPT
                                  !.objects_in_roi[roi_id] = members \cup {object_id},
                                  !.roi_counts = Put(@, roi_id, count),
                                  !.count_events = Append(@, event)],
                     roi_events |-> Append(st.roi_events, event)]
            ELSE IF ~in_roi /\ object_id \in members
            THEN [self |-> [touched EXCEPT !.objects_in_roi[roi_id] = members \ {object_id}],
                  roi_events |-> st.roi_events]
            ELSE [self |-> touched, roi_events |-> st.roi_events]

RECURSIVE CheckRois(_, _, _, _, _, _)
CheckRois(st, rm, roi_ids, object_id, centroid, t) ==
    IF roi_ids = <<>> THEN st
    ELSE CheckRois(CheckOneRoi(st, rm, Head(roi_ids), object_id, centroid, t),
                   rm, Tail(roi_ids), object_id, centroid, t)

\* Result: [self, roi_events]
check_roi_counts(self, rm, object_id, centroid, t) ==
    CheckRois([self |-> self, roi_events |-> <<>>], rm,
              Ascending(DOMAIN rm.rois), object_id, centroid, t)

\* _check_line_counts that counts "crossing_direction > 0" only
CheckOneLine_positive_only(st, rm, line_id, object_id, prev_centroid, curr_centroid, t) ==
    IF ~rm.counting_lines[line_id].enabled THEN st
    ELSE LET self == st.self
             crossing_direction ==
                 check_line_crossing(rm, prev_centroid, curr_centroid, line_id)
         IN IF crossing_direction > 0
            THEN LET count == Get(self.line_counts, line_id, 0) + 1
                     event == [type |-> "line", id |-> line_id, object_id |-> object_id,
                               position |-> curr_centroid, timestamp |-> t,
                               direction |-> crossing_direction, count |-> count]
                 IN [self |-> [self EXCEPT
                                  !.line_counts = Put(@, line_id, count),
                                  !.count_events = Append(@, event)],
                     line_events |-> Append(st.line_events, event)]
            ELSE st

\* One pass of the loop body of _check_line_counts for the line line_id.
\* st = [self, line_events]
\* the loop body of _check_line_counts without the test of "enabled"
CheckOneLine_ignores_enabled(st, rm, line_id, object_id, prev_centroid, curr_centroid, t) ==
    LET self == st.self
        crossing_direction == check_line_crossing(rm, prev_centroid, curr_centroid, line_id)
    IN IF crossing_direction # 0
       THEN LET count == Get(self.line_counts, line_id, 0) + 1
                event == [type |-> "line", id |-> line_id, object_id |-> object_id,
                          position |-> curr_centroid, timestamp |-> t,
                          direction |-> crossing_direction, count |-> count]
            IN [self |-> [self EXCEPT
                             !.line_counts = Put(@, line_id, count),
                             !.count_events = Append(@, event)],
                line_events |-> Append(st.line_events, event)]
       ELSE st

CheckOneLine(st, rm, line_id, object_id, prev_centroid, curr_centroid, t) ==
    IF ~rm.counting_lines[line_id].enabled THEN st
    ELSE LET self == st.self
             crossing_direction ==
                 check_line_crossing(rm, prev_centroid, curr_centroid, line_id)
         IN IF crossing_direction # 0
            THEN LET count == Get(self.line_counts, line_id, 0) + 1
                     event == [type |-> "line", id |-> line_id, object_id |-> object_id,
                               position |-> curr_centroid, timestamp |-> t,
                               direction |-> crossing_direction, count |-> count]
                 IN [self |-> [self EXCEPT
                                  !.line_counts = Put(@, line_id, count),
                                  !.count_events = Append(@, event)],
                     line_events |-> Append(st.line_events, event)]
            ELSE st

RECURSIVE CheckLines(_, _, _, _, _, _, _)
CheckLines(st, rm, line_ids, object_id, prev_centroid, curr_centroid, t) ==
    IF line_ids = <<>> THEN st
    ELSE CheckLines(CheckOneLine(st, rm, Head(line_ids), object_id,
                                 prev_centroid, curr_centroid, t),
                    rm, Tail(line_ids), object_id, prev_centroid, curr_centroid, t)

\* Result: [self, line_events]
check_line_counts(self, rm, object_id, prev_centroid, curr_centroid, t) ==
    CheckLines([self |-> self, line_events |-> <<>>], rm,
               Ascending(DOMAIN rm.counting_lines), object_id,
               prev_centroid, curr_centroid, t)

\* _update_count_events at time t
\* _update_count_events that cuts the list from the wrong end: [:max_events]
update_count_events_keeps_oldest(self, t) ==
    LET fresh == SelectSeq(self.count_events,
                           LAMBDA event : t - event.timestamp < event_duration)
    IN [self EXCEPT !.count_events =
           IF Len(fresh) > max_events THEN SubSeq(fresh, 1, max_events) ELSE fresh]

update_count_events(self, t) ==
    LET fresh == SelectSeq(self.count_events,
                           LAMBDA event : t - event.timestamp < event_duration)
        n == Len(fresh)
    IN [self EXCEPT !.count_events =
           IF n > max_events THEN SubSeq(fresh, n - max_events + 1, n) ELSE fresh]

\* the loop body of update with the origin standing in for a missing previous
\* position: self.last_positions.get(object_id, (0, 0))
UpdateOneObject_origin(st, rm, item, t) ==
    IF st.raised # "none" THEN st
    ELSE IF item.kind # "dict" THEN [st EXCEPT !.raised = "TypeError"]
    ELSE IF item.value.disappeared > 0 THEN st
    ELSE LET object_id == item.key
             centroid == item.value.centroid
             r1 == check_roi_counts(st.self, rm, object_id, centroid, t)
             r2 == check_line_counts(r1.self, rm, object_id,
                                     Get(r1.self.last_positions, object_id, <<0, 0>>),
                                     centroid, t)
         IN [self |-> [r2.self EXCEPT !.last_positions = Put(@, object_id, centroid)],
             roi_events |-> st.roi_events \o r1.roi_events,
             line_events |-> st.line_events \o r2.line_events,
             raised |-> "none"]

\* tracked_objects.items() is a list of [key, kind, value]: kind "dict" when the
\* value is a dict with the keys disappeared, box and centroid, kind "list" when
\* it is a list, which object_data["disappeared"] cannot index (TypeError).
\* st = [self, roi_events, line_events, raised]
UpdateOneObject(st, rm, item, t) ==
    IF st.raised # "none" THEN st
    ELSE IF item.kind # "dict" THEN [st EXCEPT !.raised = "TypeError"]
    ELSE IF item.value.disappeared > 0 THEN st
    ELSE LET object_id == item.key
             centroid == item.value.centroid
             r1 == check_roi_counts(st.self, rm, object_id, centroid, t)
             has_prev == object_id \in DOMAIN r1.self.last_positions
             r2 == IF has_prev
                   THEN check_line_counts(r1.self, rm, object_id,
                                          r1.self.last_positions[object_id], centroid, t)
                   ELSE [self |-> r1.self, line_events |-> <<>>]
         IN [self |-> [r2.self EXCEPT !.last_positions = Put(@, object_id, centroid)],
             roi_events |-> st.roi_events \o r1.roi_events,
             line_events |-> st.line_events \o r2.line_events,
             raised |-> "none"]

RECURSIVE UpdateObjects(_, _, _, _)
UpdateObjects(st, rm, items, t) ==
    IF items = <<>> THEN st
    ELSE UpdateObjects(UpdateOneObject(st, rm, Head(items), t), rm, Tail(items), t)

\* the purge with the test tracked_objects[object_id]["disappeared"] > 0 left out
PurgedIds_absent_only(self, items) ==
    {object_id \in DOMAIN self.last_positions :
        \A k \in DOMAIN items : items[k].key # object_id}

\* lines 85-92: the ids whose records are removed
PurgedIds(self, items) ==
    {object_id \in DOMAIN self.last_positions :
        \/ \A k \in DOMAIN items : items[k].key # object_id
        \/ \E k \in DOMAIN items :
              items[k].key = object_id /\ items[k].value.disappeared > 0}

purge_old_objects(self, items) ==
    LET gone == PurgedIds(self, items)
    IN [self EXCEPT
           !.last_positions = [id \in (DOMAIN @) \ gone |-> @[id]],
           !.objects_in_roi = [roi_id \in DOMAIN @ |-> @[roi_id] \ gone]]

\* VehicleCounter.update at time t.  Result: [self, results, raised]
counter_update(self, rm, items, t) ==
    LET st == UpdateObjects([self |-> self, roi_events |-> <<>>,
                             line_events |-> <<>>, raised |-> "none"], rm, items, t)
    IN IF st.raised # "none"
       THEN [self |-> st.self, results |-> <<>>, raised |-> st.raised]
       ELSE LET s1 == update_count_events(purge_old_objects(st.self, items), t)
            IN [self |-> s1,
                results |-> [roi_events   |-> st.roi_events,
                             line_events  |-> st.line_events,
                             roi_counts   |-> self.roi_counts,
                             line_counts  |-> self.line_counts,
                             roi_totals   |-> s1.roi_counts,
                             line_totals  |-> s1.line_counts,
                             count_events |-> s1.count_events],
                raised |-> "none"]

\* reset_counts that leaves the retained events in place
reset_counts_keeps_events(self) ==
    [self EXCEPT !.roi_counts = <<>>, !.line_counts = <<>>, !.objects_in_roi = <<>>]

reset_counts(self) ==
    [self EXCEPT !.roi_counts = <<>>, !.line_counts = <<>>,
                 !.objects_in_roi = <<>>, !.count_events = <<>>]

\* Result: the exported dict; self is not touched
export_counts(self, t) ==
    [roi_counts |-> self.roi_counts, line_counts |-> self.line_counts, timestamp |-> t]

-----------------------------------------------------------------------------
(* ui/gui_app.py: the threads *)

\* VehicleCounterGUI.__init__: the GUI thread is in no handler and
\* self.processing_thread is None
ThreadsInit == [gui |-> "idle", workers |-> <<>>]

-----------------------------------------------------------------------------
(* Calls on the tracker *)

IdPairs(object_ids, matches) == {<<object_ids[m[1]], m[2]>> : m \in Range(matches)}

\* the accepted pairs of update(self, dets) as <<object_id, detection index>>
MatchedPairs(self, dets) ==
    IF Len(dets) = 0 \/ DOMAIN self.objects = {} THEN {}
    ELSE IdPairs(Ascending(DOMAIN self.objects), Matches(ExistingBoxes(self), BoxesOf(dets)))

Register(bbox, cls) ==
    /\ tracker.next_object_id < MaxIds
    /\ tracker' = register(tracker, bbox, cls[1], cls[2])
    /\ last' = [op |-> "register", created |-> 1, raised |-> "none"]
    /\ seen' = seen \cup DOMAIN tracker'.objects
    /\ misses' = [id \in DOMAIN tracker'.objects |-> Get(misses, id, 0)]
    /\ UNCHANGED <<roi_manager, counter, now, frame, threads>>

Deregister(object_id) ==
    LET r == deregister(tracker, object_id) IN
    /\ tracker' = r.self
    /\ last' = [op |-> "deregister", object_id |-> object_id, raised |-> r.raised]
    /\ seen' = seen
    /\ misses' = [id \in DOMAIN tracker'.objects |-> misses[id]]
    /\ UNCHANGED <<roi_manager, counter, now, frame, threads>>

TrackerUpdate(dets) ==
    \E r \in {update(tracker, dets)} :
    \E matched \in {IF r.raised = "none" THEN MatchedPairs(tracker, dets) ELSE {}} :
    LET hit == {m[1] : m \in matched}
        before == DOMAIN tracker.objects
    IN
    /\ r.self.next_object_id <= MaxIds
    /\ tracker' = r.self
    /\ last' = [op      |-> "update",
                dets    |-> dets,
                matched |-> matched,
                revived |-> {id \in hit : Get(tracker.disappeared, id, 0) >= 1},
                created |-> IF r.raised = "none" THEN Len(dets) - Cardinality(matched) ELSE 0,
                removed |-> [id \in before \ DOMAIN r.self.objects |-> misses[id] + 1],
                results |-> r.results,
                raised  |-> r.raised]
    /\ seen' = seen \cup DOMAIN r.self.objects
    /\ misses' = [id \in DOMAIN r.self.objects |->
                     IF id \notin before \/ id \in hit THEN 0
                     ELSE IF r.raised = "none" THEN misses[id] + 1 ELSE misses[id]]
    /\ UNCHANGED <<roi_manager, counter, now, frame, threads>>

TrackerReset ==
    /\ tracker' = tracker_reset(tracker)
    /\ last' = [op |-> "tracker_reset", numbered |-> tracker.next_object_id,
                raised |-> "none"]
    /\ seen' = {}
    /\ misses' = <<>>
    /\ UNCHANGED <<roi_manager, counter, now, frame, threads>>

Init ==
    /\ tracker = TrackerInit
    /\ roi_manager = ROIManagerInit
    /\ counter = VehicleCounterInit
    /\ now = 0
    /\ last = [op |-> "init", raised |-> "none"]
    /\ seen = {}
    /\ misses = <<>>
    /\ frame = {}
    /\ threads = ThreadsInit

\* the tracker alone, used without reset
NextTracker ==
    \/ \E det \in FrameDetections : Register(det.box, det.cls)
    \/ \E object_id \in 0..(MaxIds - 1) : Deregister(object_id)
    \/ \E dets \in SeqUpTo(FrameDetections, MaxDets) : TrackerUpdate(dets)

SpecTracker == Init /\ [][NextTracker]_vars

\* the tracker used with reset
NextTrackerReset ==
    \/ NextTracker
    \/ TrackerReset

SpecTrackerReset == Init /\ [][NextTrackerReset]_vars

\* one update of a tracker that holds the tracks registered by Init
MatchFrame(dets) ==
    /\ last.op = "init"
    /\ \E r \in {update(tracker, dets)} :
          /\ tracker' = r.self
          /\ last' = [op       |-> "match",
                      existing |-> ExistingBoxes(tracker),
                      bboxes   |-> BoxesOf(dets),
                      matches  |-> IF r.raised = "none"
                                   THEN Matches(ExistingBoxes(tracker), BoxesOf(dets))
                                   ELSE <<>>,
                      results  |-> r.results,
                      raised   |-> r.raised]
    /\ UNCHANGED <<roi_manager, counter, now, seen, misses, frame, threads>>

\* a tracker on which register was called for each of up to MatchTracks detections
InitMatching ==
    /\ \E dets \in SeqUpTo(Detections, MatchTracks) \ {<<>>} :
          tracker = RegisterAll(TrackerInit, dets)
    /\ roi_manager = ROIManagerInit
    /\ counter = VehicleCounterInit
    /\ now = 0
    /\ last = [op |-> "init", raised |-> "none"]
    /\ seen = {}
    /\ misses = <<>>
    /\ frame = {}
    /\ threads = ThreadsInit

NextMatching == \E dets \in SeqUpTo(Detections, MatchDets) \ {<<>>} : MatchFrame(dets)

SpecMatching == InitMatching /\ [][NextMatching]_vars

-----------------------------------------------------------------------------
(* Calls on the counter and on the registry it reads *)

RECURSIVE AddPoints(_, _)
AddPoints(self, points) ==
    IF points = <<>> THEN self
    ELSE AddPoints(add_point(self, Head(points)).self, Tail(points))

\* the registry after start_roi_editing, one add_point per point, finish_editing
DrawRoi(self, points) == finish_editing(AddPoints(start_roi_editing(self), points)).self

DrawLine(self, points) == finish_editing(AddPoints(start_line_editing(self), points)).self

LineDirections == {"north_south", "east_west", "bidirectional"}

\* the square zone and the vertical line of the spec's examples
SquarePoints == <<<<0, 0>>, <<10, 0>>, <<10, 10>>, <<0, 10>>>>
LinePoints == <<<<50, 0>>, <<50, 100>>>>

\* a registry in which the zone 1 and the line 2 were drawn and the line was
\* given the direction
ConfiguredRegistry(direction) ==
    update_line(DrawLine(DrawRoi(ROIManagerInit, SquarePoints), LinePoints),
                2, [direction |-> direction]).self

\* the track ids and the centroids the counter is fed: inside the zone, outside
\* it on the same side of the line, and across the line
ObjectIds == 0 .. (MaxObjects - 1)
Centroids == {<<5, 5>>, <<15, 15>>, <<60, 50>>}
LineCentroids == {<<15, 15>>, <<60, 50>>}

BoxAround(c) == <<c[1] - 2, c[2] - 2, c[1] + 2, c[2] + 2>>

\* one entry of tracked_objects: the dict of an active track at one of the
\* centroids, or of a track that has disappeared
ObjectItems(object_id, centroids) ==
    {[key |-> object_id, kind |-> "dict",
      value |-> [disappeared |-> 0, box |-> BoxAround(c), centroid |-> c]] : c \in centroids}
    \cup {[key |-> object_id, kind |-> "dict",
           value |-> [disappeared |-> 1, box |-> BoxAround(<<15, 15>>),
                      centroid |-> <<15, 15>>]]}

\* the dicts tracked_objects may be: their items, keys distinct, in any order
TrackedObjects(centroids) ==
    {items \in SeqUpTo(UNION {ObjectItems(id, centroids) : id \in ObjectIds},
                       Cardinality(ObjectIds)) :
        \A i, j \in DOMAIN items : i # j => items[i].key # items[j].key}

RECURSIVE SumOver(_, _)
SumOver(f, ids) ==
    IF ids = {} THEN 0
    ELSE LET id == CHOOSE x \in ids : TRUE IN f[id] + SumOver(f, ids \ {id})

Total(counts) == SumOver(counts, DOMAIN counts)

\* the active tracks of tracked_objects and their centroids
ActiveOf(items) ==
    LET act == {k \in DOMAIN items : items[k].value.disappeared = 0}
    IN [id \in {items[k].key : k \in act} |->
           items[CHOOSE k \in act : items[k].key = id].value.centroid]

EnabledIds(table) == {id \in DOMAIN table : table[id].enabled}

CounterUpdate(items) ==
    \E r \in {counter_update(counter, roi_manager, items, now)} :
    /\ Total(r.self.roi_counts) + Total(r.self.line_counts) <= MaxCount
    /\ counter' = r.self
    /\ last' = [op      |-> "counter_update",
                active  |-> ActiveOf(items),
                fresh   |-> DOMAIN ActiveOf(items) \ DOMAIN counter.last_positions,
                hidden  |-> {items[k].key : k \in
                               {k \in DOMAIN items : items[k].value.disappeared > 0}},
                removed |-> {x \in (DOMAIN counter.objects_in_roi) \X ObjectIds :
                               /\ x[2] \in counter.objects_in_roi[x[1]]
                               /\ x[2] \notin r.self.objects_in_roi[x[1]]},
                results |-> r.results,
                raised  |-> r.raised]
    /\ frame' = (IF r.raised = "none" THEN EnabledIds(roi_manager.rois) ELSE frame)
    /\ UNCHANGED <<tracker, roi_manager, now, seen, misses, threads>>

CounterReset ==
    /\ counter' = reset_counts(counter)
    /\ last' = [op |-> "counter_reset", raised |-> "none"]
    /\ frame' = {}
    /\ UNCHANGED <<tracker, roi_manager, now, seen, misses, threads>>

\* an export that hands the counts over and clears them
ExportCounts_and_clear ==
    /\ last' = [op |-> "export_counts", results |-> export_counts(counter, now),
                raised |-> "none"]
    /\ counter' = reset_counts(counter)
    /\ UNCHANGED <<tracker, roi_manager, now, seen, misses, frame, threads>>

ExportCounts ==
    /\ last' = [op |-> "export_counts", results |-> export_counts(counter, now),
                raised |-> "none"]
    /\ UNCHANGED <<tracker, roi_manager, counter, now, seen, misses, frame, threads>>

SetRoiEnabled(roi_id, enabled) ==
    \E r \in {update_roi(roi_manager, roi_id, [enabled |-> enabled])} :
    /\ roi_manager' = r.self
    /\ last' = [op |-> "update_roi", ret |-> r.ret, raised |-> "none"]
    /\ UNCHANGED <<tracker, counter, now, seen, misses, frame, threads>>

SetLineEnabled(line_id, enabled) ==
    \E r \in {update_line(roi_manager, line_id, [enabled |-> enabled])} :
    /\ roi_manager' = r.self
    /\ last' = [op |-> "update_line", ret |-> r.ret, raised |-> "none"]
    /\ UNCHANGED <<tracker, counter, now, seen, misses, frame, threads>>

\* a second passes
Tick ==
    /\ now < MaxTime
    /\ now' = now + 1
    /\ last' = [op |-> "tick", raised |-> "none"]
    /\ UNCHANGED <<tracker, roi_manager, counter, seen, misses, frame, threads>>

\* a fresh counter on the registry rm
CounterOn(rm) ==
    /\ tracker = TrackerInit
    /\ roi_manager = rm
    /\ counter = VehicleCounterInit
    /\ now = 0
    /\ last = [op |-> "init", raised |-> "none"]
    /\ seen = {}
    /\ misses = <<>>
    /\ frame = {}
    /\ threads = ThreadsInit

\* the counter on a registry in which the square zone was drawn
InitZones == CounterOn(DrawRoi(ROIManagerInit, SquarePoints))

NextZones ==
    \/ \E items \in TrackedObjects(Centroids) : CounterUpdate(items)
    \/ CounterReset
    \/ \E roi_id \in DOMAIN roi_manager.rois, enabled \in BOOLEAN :
          SetRoiEnabled(roi_id, enabled)

SpecZones == InitZones /\ [][NextZones]_vars

\* the counter on a registry in which the vertical line was drawn and given a
\* direction
InitLines ==
    \E direction \in LineDirections :
        CounterOn(update_line(DrawLine(ROIManagerInit, LinePoints),
                              1, [direction |-> direction]).self)

NextLines ==
    \/ \E items \in TrackedObjects(LineCentroids) : CounterUpdate(items)
    \/ CounterReset
    \/ \E line_id \in DOMAIN roi_manager.counting_lines, enabled \in BOOLEAN :
          SetLineEnabled(line_id, enabled)

SpecLines == InitLines /\ [][NextLines]_vars

\* the counter on a registry that holds the zone and a two-way line, either of
\* which may be switched off and on between updates
InitSwitched == CounterOn(ConfiguredRegistry("bidirectional"))

\* centroids inside the zone, and outside it across the line
SwitchedCentroids == {<<5, 5>>, <<60, 50>>}

NextSwitched ==
    \/ \E items \in TrackedObjects(SwitchedCentroids) : CounterUpdate(items)
    \/ \E roi_id \in DOMAIN roi_manager.rois, enabled \in BOOLEAN :
          SetRoiEnabled(roi_id, enabled)
    \/ \E line_id \in DOMAIN roi_manager.counting_lines, enabled \in BOOLEAN :
          SetLineEnabled(line_id, enabled)

SpecSwitched == InitSwitched /\ [][NextSwitched]_vars

\* one track that is inside the zone, outside it, or not reported
BurstItems ==
    {<<>>} \cup {<<item>> : item \in ObjectItems(0, {<<5, 5>>, <<15, 15>>})}

\* update, allowed until the zone has counted a burst of entries
CounterUpdateBurst(items) ==
    \E r \in {counter_update(counter, roi_manager, items, now)} :
    /\ Total(r.self.roi_counts) <= MaxBurst
    /\ counter' = r.self
    /\ last' = [op      |-> "counter_update",
                results |-> r.results,
                raised  |-> r.raised]
    /\ frame' = (IF r.raised = "none" THEN EnabledIds(roi_manager.rois) ELSE frame)
    /\ UNCHANGED <<tracker, roi_manager, now, seen, misses, threads>>

\* the counter on the square zone with one track going in and out as time passes
NextEvents ==
    \/ \E items \in BurstItems : CounterUpdateBurst(items)
    \/ Tick

SpecEvents == InitZones /\ [][NextEvents]_vars

\* the counter on a registry that holds the zone and the line
InitCounter == \E direction \in LineDirections : CounterOn(ConfiguredRegistry(direction))

NextCounter ==
    \/ \E items \in TrackedObjects(Centroids) : CounterUpdate(items)
    \/ CounterReset
    \/ ExportCounts

SpecCounter == InitCounter /\ [][NextCounter]_vars

-----------------------------------------------------------------------------
(* Calls on the registry *)

\* the points clicked while editing
EditPoints == {<<0, 0>>, <<10, 10>>}

\* the ids a caller may name: those uuid4 has produced or will, and one more
ShapeIds == 1 .. (MaxShapes + 1)

\* the data dicts handed to update_roi and update_line
UpdateData ==
    {[enabled |-> FALSE], [points |-> <<<<0, 0>>>>]}

StartRoiEditing ==
    /\ roi_manager' = start_roi_editing(roi_manager)
    /\ last' = [op |-> "start_roi_editing", ret |-> TRUE, raised |-> "none"]
    /\ UNCHANGED <<tracker, counter, now, seen, misses, frame, threads>>

StartLineEditing ==
    /\ roi_manager' = start_line_editing(roi_manager)
    /\ last' = [op |-> "start_line_editing", ret |-> TRUE, raised |-> "none"]
    /\ UNCHANGED <<tracker, counter, now, seen, misses, frame, threads>>

AddPoint(point) ==
    \E r \in {add_point(roi_manager, point)} :
    /\ Len(r.self.temp_points) <= MaxPoints
    /\ roi_manager' = r.self
    /\ last' = [op |-> "add_point", point |-> point, ret |-> r.ret, raised |-> "none"]
    /\ UNCHANGED <<tracker, counter, now, seen, misses, frame, threads>>

FinishEditing ==
    \E r \in {finish_editing(roi_manager)} :
    /\ r.self.uuids <= MaxShapes
    /\ roi_manager' = r.self
    /\ last' = [op |-> "finish_editing", ret |-> r.ret, id |-> r.id, raised |-> "none"]
    /\ UNCHANGED <<tracker, counter, now, seen, misses, frame, threads>>

CancelEditing ==
    \E r \in {cancel_editing(roi_manager)} :
    /\ roi_manager' = r.self
    /\ last' = [op |-> "cancel_editing", ret |-> r.ret, raised |-> "none"]
    /\ UNCHANGED <<tracker, counter, now, seen, misses, frame, threads>>

DeleteRoi(roi_id) ==
    \E r \in {delete_roi(roi_manager, roi_id)} :
    /\ roi_manager' = r.self
    /\ last' = [op |-> "delete_roi", id |-> roi_id, ret |-> r.ret, raised |-> "none"]
    /\ UNCHANGED <<tracker, counter, now, seen, misses, frame, threads>>

DeleteLine(line_id) ==
    \E r \in {delete_line(roi_manager, line_id)} :
    /\ roi_manager' = r.self
    /\ last' = [op |-> "delete_line", id |-> line_id, ret |-> r.ret, raised |-> "none"]
    /\ UNCHANGED <<tracker, counter, now, seen, misses, frame, threads>>

UpdateRoi(roi_id, data) ==
    \E r \in {update_roi(roi_manager, roi_id, data)} :
    /\ roi_manager' = r.self
    /\ last' = [op |-> "update_roi", ret |-> r.ret, raised |-> "none"]
    /\ UNCHANGED <<tracker, counter, now, seen, misses, frame, threads>>

UpdateLine(line_id, data) ==
    \E r \in {update_line(roi_manager, line_id, data)} :
    /\ roi_manager' = r.self
    /\ last' = [op |-> "update_line", ret |-> r.ret, raised |-> "none"]
    /\ UNCHANGED <<tracker, counter, now, seen, misses, frame, threads>>

\* the registry from construction on, under the calls of an editing session
NextEditing ==
    \/ StartRoiEditing
    \/ StartLineEditing
    \/ \E point \in EditPoints : AddPoint(point)
    \/ FinishEditing
    \/ CancelEditing

SpecEditing == Init /\ [][NextEditing]_vars

\* ... and under the calls that delete and update what is stored
NextRegistry ==
    \/ NextEditing
    \/ \E roi_id \in ShapeIds : DeleteRoi(roi_id)
    \/ \E line_id \in ShapeIds : DeleteLine(line_id)
    \/ \E roi_id \in ShapeIds, data \in UpdateData : UpdateRoi(roi_id, data)
    \/ \E line_id \in ShapeIds, data \in UpdateData : UpdateLine(line_id, data)

SpecRegistry == Init /\ [][NextRegistry]_vars

-----------------------------------------------------------------------------
(* ui/gui_app.py: one frame of ProcessingThread._process_single_frame *)

\* tracking_results.items(): the six keys of the dict get_tracking_results
\* builds, each with a list as its value
TrackingItems(results) ==
    <<[key |-> "object_ids",   kind |-> "list", value |-> results.object_ids],
      [key |-> "bboxes",       kind |-> "list", value |-> results.bboxes],
      [key |-> "class_ids",    kind |-> "list", value |-> results.class_ids],
      [key |-> "class_names",  kind |-> "list", value |-> results.class_names],
      [key |-> "trajectories", kind |-> "list", value |-> results.trajectories],
      [key |-> "centers",      kind |-> "list", value |-> results.centers]>>

\* self.tracker.update(...) followed by self.counter.update(tracking_results);
\* an exception leaves _process_single_frame and the loop goes on with the next
\* frame
ProcessFrame(dets) ==
    \E r \in {update(tracker, dets)} :
    \E c \in {IF r.raised = "none"
              THEN counter_update(counter, roi_manager, TrackingItems(r.results), now)
              ELSE [self |-> counter, results |-> <<>>, raised |-> r.raised]} :
    \E matched \in {IF r.raised = "none" THEN MatchedPairs(tracker, dets) ELSE {}} :
    LET hit == {m[1] : m \in matched}
        before == DOMAIN tracker.objects
    IN
    /\ r.self.next_object_id <= MaxIds
    /\ tracker' = r.self
    /\ counter' = c.self
    /\ last' = [op       |-> "frame",
                created  |-> DOMAIN r.self.objects \ before,
                tracking |-> r.results,
                counting |-> c.results,
                raised   |-> c.raised]
    /\ seen' = seen \cup DOMAIN r.self.objects
    /\ misses' = [id \in DOMAIN r.self.objects |->
                     IF id \notin before \/ id \in hit THEN 0
                     ELSE IF r.raised = "none" THEN misses[id] + 1 ELSE misses[id]]
    /\ UNCHANGED <<roi_manager, now, frame, threads>>

NextPipeline ==
    \/ \E dets \in SeqUpTo(FrameDetections, MaxDets) : ProcessFrame(dets)
    \/ \E roi_id \in DOMAIN roi_manager.rois, enabled \in BOOLEAN :
          SetRoiEnabled(roi_id, enabled)
    \/ \E line_id \in DOMAIN roi_manager.counting_lines, enabled \in BOOLEAN :
          SetLineEnabled(line_id, enabled)

SpecPipeline == InitCounter /\ [][NextPipeline]_vars

-----------------------------------------------------------------------------
(* ui/gui_app.py: the GUI thread and the processing threads it starts.  A       *)
(* processing thread is [running, at, tracking]: its flag self.running, where   *)
(* it is ("loop": at the test of "while self.running"; "tracked": in            *)
(* _process_single_frame, back from tracker.update and before counter.update    *)
(* has returned; "finished": run has returned) and its local tracking_results.  *)
(* The GUI thread is "idle" or, in start_processing, at the "wait" of           *)
(* stop_and_cleanup_thread.                                                     *)

\* processing_thread.isRunning()
IsRunning(worker) == worker.at # "finished"

\* ProcessingThread.stop on self.processing_thread, when there is one
Stopped(workers) ==
    IF workers = <<>> THEN workers
    ELSE [workers EXCEPT ![Len(workers)].running = FALSE]

\* stop_processing: stop is called only on a thread that is running
StopIfRunning(workers) ==
    IF workers # <<>> /\ IsRunning(workers[Len(workers)]) THEN Stopped(workers)
    ELSE workers

\* a processing thread reads a frame and calls self.tracker.update on its
\* detections; an exception takes it back to the loop
WorkerTrackerUpdate(i, dets) ==
    /\ threads.workers[i].at = "loop"
    /\ threads.workers[i].running
    /\ \E r \in {update(tracker, dets)} :
       \E matched \in {IF r.raised = "none" THEN MatchedPairs(tracker, dets) ELSE {}} :
       LET hit == {m[1] : m \in matched}
           before == DOMAIN tracker.objects
       IN
       /\ r.self.next_object_id <= MaxIds
       /\ tracker' = r.self
       /\ threads' = [threads EXCEPT
                         !.workers[i].at = IF r.raised = "none" THEN "tracked" ELSE "loop",
                         !.workers[i].tracking = r.results]
       /\ last' = [op |-> "tracker_update", thread |-> i, raised |-> r.raised]
       /\ seen' = seen \cup DOMAIN r.self.objects
       /\ misses' = [id \in DOMAIN r.self.objects |->
                        IF id \notin before \/ id \in hit THEN 0
                        ELSE IF r.raised = "none" /\ id \in DOMAIN misses
                        THEN misses[id] + 1 ELSE Get(misses, id, 0)]
    /\ UNCHANGED <<roi_manager, counter, now, frame>>

\* ... then calls self.counter.update on the tracking results and goes back to
\* the loop, whether the call returns or raises
WorkerCounterUpdate(i) ==
    /\ threads.workers[i].at = "tracked"
    /\ \E c \in {counter_update(counter, roi_manager,
                                 TrackingItems(threads.workers[i].tracking), now)} :
          /\ counter' = c.self
          /\ last' = [op |-> "counter_update", thread |-> i, raised |-> c.raised]
    /\ threads' = [threads EXCEPT !.workers[i].at = "loop", !.workers[i].tracking = <<>>]
    /\ UNCHANGED <<tracker, roi_manager, now, seen, misses, frame>>

\* "while self.running" finds the flag cleared: the loop ends and run returns
WorkerExit(i) ==
    /\ threads.workers[i].at = "loop"
    /\ ~threads.workers[i].running
    /\ threads' = [threads EXCEPT !.workers[i].at = "finished"]
    /\ last' = [op |-> "run_returns", thread |-> i, raised |-> "none"]
    /\ UNCHANGED <<tracker, roi_manager, counter, now, seen, misses, frame>>

\* start_processing up to the wait in stop_and_cleanup_thread: the thread, if
\* there is one, is told to stop
GuiStartProcessing ==
    /\ threads.gui = "idle"
    /\ Len(threads.workers) < MaxThreads
    /\ threads' = [gui |-> "wait", workers |-> Stopped(threads.workers)]
    /\ last' = [op |-> "start_processing", thread |-> "gui", raised |-> "none"]
    /\ UNCHANGED <<tracker, roi_manager, counter, now, seen, misses, frame>>

\* the rest of start_processing: reset_components, then a new processing
\* thread is made and started
ResetAndStart(waited) ==
    /\ tracker' = tracker_reset(tracker)
    /\ counter' = reset_counts(counter)
    /\ threads' = [gui |-> "idle",
                   workers |-> Append(threads.workers,
                                      [running |-> TRUE, at |-> "loop", tracking |-> <<>>])]
    /\ last' = [op |-> "reset_components", thread |-> "gui", waited |-> waited,
                raised |-> "none"]
    /\ seen' = {}
    /\ misses' = <<>>
    /\ frame' = {}
    /\ UNCHANGED <<roi_manager, now>>

\* there is no thread to wait for, or wait(3000) returns True: the thread has
\* finished
GuiWaitReturns ==
    /\ threads.gui = "wait"
    /\ \A i \in {Len(threads.workers)} \ {0} : ~IsRunning(threads.workers[i])
    /\ ResetAndStart("finished")

\* wait(3000) returns False: the thread is still running after 3 seconds, a
\* warning is logged and start_processing goes on
GuiWaitTimesOut ==
    /\ threads.gui = "wait"
    /\ \E i \in {Len(threads.workers)} \ {0} : IsRunning(threads.workers[i])
    /\ ResetAndStart("timeout")

\* stop_processing
GuiStopProcessing ==
    /\ threads.gui = "idle"
    /\ threads' = [threads EXCEPT !.workers = StopIfRunning(@)]
    /\ last' = [op |-> "stop_processing", thread |-> "gui", raised |-> "none"]
    /\ UNCHANGED <<tracker, roi_manager, counter, now, seen, misses, frame>>

\* VehicleCounterGUI.start_roi_editing / start_line_editing: stop_processing,
\* then the registry is put in editing mode
GuiStartEditing(mode) ==
    /\ threads.gui = "idle"
    /\ threads' = [threads EXCEPT !.workers = StopIfRunning(@)]
    /\ roi_manager' = IF mode = "ROI" THEN start_roi_editing(roi_manager)
                                      ELSE start_line_editing(roi_manager)
    /\ last' = [op |-> IF mode = "ROI" THEN "start_roi_editing" ELSE "start_line_editing",
                thread |-> "gui", raised |-> "none"]
    /\ UNCHANGED <<tracker, counter, now, seen, misses, frame>>

\* VehicleCounterGUI.finish_editing
GuiFinishEditing ==
    /\ threads.gui = "idle"
    /\ roi_manager' = finish_editing(roi_manager).self
    /\ last' = [op |-> "finish_editing", thread |-> "gui", raised |-> "none"]
    /\ UNCHANGED <<tracker, counter, now, seen, misses, frame, threads>>

\* VehicleCounterGUI.cancel_editing
GuiCancelEditing ==
    /\ threads.gui = "idle"
    /\ roi_manager' = cancel_editing(roi_manager).self
    /\ last' = [op |-> "cancel_editing", thread |-> "gui", raised |-> "none"]
    /\ UNCHANGED <<tracker, counter, now, seen, misses, frame, threads>>

NextThreads ==
    \/ \E i \in DOMAIN threads.workers, dets \in SeqUpTo(FrameDetections, MaxDets) :
          WorkerTrackerUpdate(i, dets)
    \/ \E i \in DOMAIN threads.workers : WorkerCounterUpdate(i)
    \/ \E i \in DOMAIN threads.workers : WorkerExit(i)
    \/ GuiStartProcessing
    \/ GuiWaitReturns
    \/ GuiWaitTimesOut
    \/ GuiStopProcessing
    \/ \E mode \in {"ROI", "LINE"} : GuiStartEditing(mode)
    \/ GuiFinishEditing
    \/ GuiCancelEditing

SpecThreads == InitSwitched /\ [][NextThreads]_vars

-----------------------------------------------------------------------------
(* ROIManager.check_line_crossing on its own *)

Coordinates == {40, 50, 60}
Points == Coordinates \X Coordinates

\* the vertical line of the spec's example, a horizontal line and a slanted one
Lines == {<<<<50, 0>>, <<50, 100>>>>, <<<<0, 50>>, <<100, 50>>>>, <<<<30, 40>>, <<70, 60>>>>}

CheckLineCrossing(prev_point, curr_point) ==
    \E line_id \in DOMAIN roi_manager.counting_lines :
    /\ last' = [op   |-> "check_line_crossing",
                line_id |-> line_id,
                prev |-> prev_point,
                curr |-> curr_point,
                ret  |-> check_line_crossing(roi_manager, prev_point, curr_point, line_id),
                raised |-> "none"]
    /\ UNCHANGED <<tracker, roi_manager, counter, now, seen, misses, frame, threads>>

\* a registry that holds one line with a direction
InitCrossing ==
    \E points \in Lines, direction \in LineDirections :
        CounterOn(update_line(DrawLine(ROIManagerInit, points),
                              1, [direction |-> direction]).self)

NextCrossing == \E prev_point, curr_point \in Points : CheckLineCrossing(prev_point, curr_point)

SpecCrossing == InitCrossing /\ [][NextCrossing]_vars

-----------------------------------------------------------------------------
(* ROIManager.check_line_crossing asked about a movement and about the same    *)
(* movement made the other way                                                 *)

\* the integer points of a small square, the ends of the lines among them
GridPoints == (0 .. MaxGrid) \X (0 .. MaxGrid)

\* a vertical line, a horizontal line and a slanted one
GridLines == {<<<<1, 0>>, <<1, 2>>>>, <<<<0, 1>>, <<2, 1>>>>, <<<<0, 0>>, <<2, 2>>>>}

CheckBothWays(a, b) ==
    \E line_id \in DOMAIN roi_manager.counting_lines :
    /\ last' = [op      |-> "check_both_ways",
                line_id |-> line_id,
                a       |-> a,
                b       |-> b,
                there   |-> check_line_crossing(roi_manager, a, b, line_id),
                back    |-> check_line_crossing(roi_manager, b, a, line_id),
                raised  |-> "none"]
    /\ UNCHANGED <<tracker, roi_manager, counter, now, seen, misses, frame, threads>>

\* a registry that holds one of the lines with a direction
InitBothWays ==
    \E points \in GridLines, direction \in LineDirections :
        CounterOn(update_line(DrawLine(ROIManagerInit, points),
                              1, [direction |-> direction]).self)

NextBothWays == \E a, b \in GridPoints : CheckBothWays(a, b)

SpecBothWays == InitBothWays /\ [][NextBothWays]_vars

-----------------------------------------------------------------------------
(* Properties of the tracker *)

\* C1: in every sequence of register, deregister and update calls without
\* reset, each call creates as many new resident ids as it creates tracks, and
\* every new id is greater than every id that was handed out before: no id is
\* reused, also not the id of a deregistered track.
C1_IdsNeverReused ==
    [][last'.op \in {"register", "update"} =>
          /\ Cardinality(DOMAIN tracker'.objects \ DOMAIN tracker.objects) = last'.created
          /\ \A i \in DOMAIN tracker'.objects \ DOMAIN tracker.objects :
                \A j \in seen : i > j]_vars

\* a track was created while an id handed out earlier is no longer resident
C1_Witness ==
    /\ last.op \in {"register", "update"}
    /\ last.created >= 1
    /\ \E j \in seen : /\ j \notin DOMAIN tracker.objects
                       /\ \E i \in DOMAIN tracker.objects : i > j

\* C2: a track stays resident as long as it has gone unmatched in at most
\* max_disappeared consecutive update calls, and the update that is its
\* (max_disappeared + 1)-th consecutive miss deregisters it, for empty updates
\* and for updates whose detections do not match it.
C2_DeregisteredOnTheMissAfterMax ==
    /\ \A id \in DOMAIN tracker.objects : misses[id] <= max_disappeared
    /\ last.op = "update" =>
          \A id \in DOMAIN last.removed : last.removed[id] = max_disappeared + 1

SharesRowOrCol(p, q) == p[1] = q[1] \/ p[2] = q[2]

\* C5: of two candidate pairs of one update that share a track or a detection
\* and have the same centroid distance, the one of lower IoU is accepted only
\* when another accepted pair took the track or the detection of the one of
\* higher IoU; with only the two in contention the higher IoU wins.
C5_HigherIouWinsAtEqualDistance ==
    (last.op = "match" /\ last.raised = "none") =>
        \A p, q \in Range(CandidatePairs(last.existing, last.bboxes)) :
            LET bp == <<last.existing[p[1]], last.bboxes[p[2]]>>
                bq == <<last.existing[q[1]], last.bboxes[q[2]]>>
                iou_p == calculate_iou(bp[1], bp[2])
                iou_q == calculate_iou(bq[1], bq[2])
            IN (/\ p # q
                /\ SharesRowOrCol(p, q)
                /\ Distance2(get_center(bp[1]), get_center(bp[2]))
                     = Distance2(get_center(bq[1]), get_center(bq[2]))
                /\ iou_p[1] * iou_q[2] > iou_q[1] * iou_p[2]
                /\ q \in Range(last.matches))
               => \E r \in Range(last.matches) \ {q} : SharesRowOrCol(r, p)

-----------------------------------------------------------------------------
(* Properties of the counter *)

\* the step is a VehicleCounter.update that returned
UpdateReturned == last'.op = "counter_update" /\ last'.raised = "none"

\* positions in a list of events of those raised at the zone or line id
EventsAt(events, id) == {k \in DOMAIN events : events[k].id = id}

\* ... and raised by the track object_id
EventsFor(events, id, object_id) ==
    {k \in EventsAt(events, id) : events[k].object_id = object_id}

EventsOf(events, object_id) == {k \in DOMAIN events : events[k].object_id = object_id}

\* C3: for a track active in two consecutive updates (no reset between them) and
\* a zone enabled in both, the update in which the centroid goes from outside to
\* inside emits exactly one event of that zone for the track, the update in
\* which it stays inside emits none, and the zone's counter grows by the number
\* of events of that zone, one per entering track
C3_IdempotentZoneEntry ==
    [][UpdateReturned =>
          \A roi_id \in frame \cap EnabledIds(roi_manager.rois) :
             /\ \A object_id \in DOMAIN last'.active \cap DOMAIN counter.last_positions :
                   LET was_in == is_point_in_roi(roi_manager,
                                                 counter.last_positions[object_id], roi_id)
                       is_in == is_point_in_roi(roi_manager, last'.active[object_id], roi_id)
                       n == Cardinality(EventsFor(last'.results.roi_events, roi_id, object_id))
                   IN /\ (~was_in /\ is_in) => n = 1
                      /\ (was_in /\ is_in) => n = 0
             /\ Get(counter'.roi_counts, roi_id, 0) - Get(counter.roi_counts, roi_id, 0)
                   = Cardinality(EventsAt(last'.results.roi_events, roi_id))]_vars

\* an update in which a track that was counted once is inside the enabled zone
\* and nothing is counted
C3_Witness ==
    /\ last.op = "counter_update"
    /\ last.raised = "none"
    /\ last.results.roi_events = <<>>
    /\ \E roi_id \in frame, object_id \in DOMAIN last.active \ last.fresh :
          /\ is_point_in_roi(roi_manager, last.active[object_id], roi_id)
          /\ object_id \in Get(counter.objects_in_roi, roi_id, {})
          /\ Get(counter.roi_counts, roi_id, 0) = 1
          /\ \E k \in DOMAIN counter.count_events :
                /\ counter.count_events[k].id = roi_id
                /\ counter.count_events[k].object_id = object_id

\* C4: no step other than a reset lowers the counter of a zone or of a line
C4_CountersNonDecreasing ==
    [][last'.op # "counter_reset" =>
          /\ \A roi_id \in DOMAIN counter.roi_counts :
                Get(counter'.roi_counts, roi_id, 0) >= counter.roi_counts[roi_id]
          /\ \A line_id \in DOMAIN counter.line_counts :
                Get(counter'.line_counts, line_id, 0) >= counter.line_counts[line_id]]_vars

\* an update made when a zone and a line have already counted
C4_Witness ==
    /\ last.op = "counter_update"
    /\ last.results.roi_events = <<>>
    /\ last.results.line_events = <<>>
    /\ Total(counter.roi_counts) >= 1
    /\ Total(counter.line_counts) >= 1

C9_EveryCrossingCounted ==
    [][UpdateReturned =>
          \A line_id \in EnabledIds(roi_manager.counting_lines) :
             LET crossing(object_id) ==
                     check_line_crossing(roi_manager, counter.last_positions[object_id],
                                         last'.active[object_id], line_id)
                 crossers == {object_id \in DOMAIN last'.active \cap DOMAIN counter.last_positions :
                                 crossing(object_id) # 0}
                 events == last'.results.line_events
             IN /\ Get(counter'.line_counts, line_id, 0) - Get(counter.line_counts, line_id, 0)
                      = Cardinality(crossers)
                /\ \A object_id \in crossers :
                      /\ Cardinality(EventsFor(events, line_id, object_id)) = 1
                      /\ \A k \in EventsFor(events, line_id, object_id) :
                            /\ events[k].direction = crossing(object_id)
                            /\ roi_manager.counting_lines[line_id].direction = "bidirectional"
                                  => events[k].direction = 1]_vars

\* a bidirectional line that one track crossed once each way, counted twice
C9_Witness ==
    /\ last.op = "counter_update"
    /\ \E line_id \in EnabledIds(roi_manager.counting_lines) :
          /\ roi_manager.counting_lines[line_id].direction = "bidirectional"
          /\ Get(counter.line_counts, line_id, 0) = 2
          /\ \E j, k \in EventsAt(counter.count_events, line_id) :
                /\ counter.count_events[j].object_id = counter.count_events[k].object_id
                /\ counter.count_events[j].position[1] > 50
                /\ counter.count_events[k].position[1] < 50
                /\ counter.count_events[j].direction = 1
                /\ counter.count_events[k].direction = 1

\* C10: in the update in which a track is first seen (no previous centroid is
\* held for its id) the track raises no line event, line counters change only
\* by the events of the other tracks, and the track's centroid is recorded
C10_FirstSightingSkipsLines ==
    [][UpdateReturned =>
          /\ \A object_id \in DOMAIN last'.active \ DOMAIN counter.last_positions :
                /\ EventsOf(last'.results.line_events, object_id) = {}
                /\ object_id \in DOMAIN counter'.last_positions
                /\ counter'.last_positions[object_id] = last'.active[object_id]
          /\ \A line_id \in DOMAIN roi_manager.counting_lines :
                Get(counter'.line_counts, line_id, 0) - Get(counter.line_counts, line_id, 0)
                   = Cardinality(EventsAt(last'.results.line_events, line_id))]_vars

\* a track first seen on the far side of the enabled line: nothing is counted
\* and its centroid is held
C10_Witness ==
    /\ last.op = "counter_update"
    /\ last.raised = "none"
    /\ \E object_id \in last.fresh, line_id \in EnabledIds(roi_manager.counting_lines) :
          /\ last.active[object_id][1] > 50
          /\ counter.last_positions[object_id] = last.active[object_id]
          /\ last.results.line_events = <<>>
          /\ Get(counter.line_counts, line_id, 0) = 0

-----------------------------------------------------------------------------
(* Properties of the pipeline *)

\* C6: in a frame, the counter is given the tracker's snapshot and returns a
\* result in which every track created in that frame whose centre is inside an
\* enabled zone has a zone event, and the zone's counter has counted it
C6_SnapshotCountedInSameFrame ==
    last.op = "frame" =>
       \A i \in DOMAIN last.tracking.object_ids :
          \A roi_id \in EnabledIds(roi_manager.rois) :
             (/\ last.tracking.object_ids[i] \in last.created
              /\ is_point_in_roi(roi_manager, last.tracking.centers[i], roi_id))
             => /\ last.raised = "none"
                /\ EventsFor(last.counting.roi_events, roi_id,
                             last.tracking.object_ids[i]) # {}
                /\ Get(counter.roi_counts, roi_id, 0) >= 1

-----------------------------------------------------------------------------
(* Properties of check_line_crossing *)

\* twice the signed area of the triangle a, b, p
Cross2(a, b, p) == (b[1] - a[1]) * (p[2] - a[2]) - (b[2] - a[2]) * (p[1] - a[1])

\* p lies on the closed segment a-b
OnSegment(p, a, b) ==
    /\ Cross2(a, b, p) = 0
    /\ Min({a[1], b[1]}) <= p[1] /\ p[1] <= Max({a[1], b[1]})
    /\ Min({a[2], b[2]}) <= p[2] /\ p[2] <= Max({a[2], b[2]})

\* the movement p->q passes from one side of the segment a-b to the other
\* through its interior
CrossesThrough(p, q, a, b) ==
    /\ Cross2(a, b, p) * Cross2(a, b, q) < 0
    /\ Cross2(p, q, a) * Cross2(p, q, b) < 0

\* the movement and the segment have no point in common
StaysClear(p, q, a, b) ==
    /\ ~CrossesThrough(p, q, a, b)
    /\ ~OnSegment(p, a, b) /\ ~OnSegment(q, a, b)
    /\ ~OnSegment(a, p, q) /\ ~OnSegment(b, p, q)

\* the direction table of the line modes
ExpectedDirection(direction, prev, curr) ==
    IF direction = "north_south" THEN (IF curr[1] > prev[1] THEN 1 ELSE -1)
    ELSE IF direction = "east_west" THEN (IF curr[2] < prev[2] THEN 1 ELSE -1)
    ELSE 1

-----------------------------------------------------------------------------
(* The pairs an update accepts *)

\* flat boxes: BoxF and BoxG overlap with IoU 3/10, the threshold itself; BoxH
\* overlaps both above the threshold; BoxW and BoxX overlap with IoU 1/2 while
\* their centres are 4 apart, more than max_distance
BoxF == <<0, 0, 6, 1>>
BoxG == <<3, 0, 10, 1>>
BoxH == <<2, 0, 6, 1>>
BoxW == <<0, 0, 12, 1>>
BoxX == <<4, 0, 16, 1>>

AcceptanceDetections ==
    {[box |-> BoxF, cls |-> <<2, "car">>], [box |-> BoxG, cls |-> <<2, "car">>],
     [box |-> BoxH, cls |-> <<7, "truck">>], [box |-> BoxW, cls |-> <<7, "truck">>],
     [box |-> BoxX, cls |-> <<7, "truck">>]}

\* a tracker on which register was called for each of up to MatchTracks of them
InitAcceptance ==
    /\ \E dets \in SeqUpTo(AcceptanceDetections, MatchTracks) \ {<<>>} :
          tracker = RegisterAll(TrackerInit, dets)
    /\ roi_manager = ROIManagerInit
    /\ counter = VehicleCounterInit
    /\ now = 0
    /\ last = [op |-> "init", raised |-> "none"]
    /\ seen = {}
    /\ misses = <<>>
    /\ frame = {}
    /\ threads = ThreadsInit

NextAcceptance ==
    \E dets \in SeqUpTo(AcceptanceDetections, MatchDets) \ {<<>>} : MatchFrame(dets)

SpecAcceptance == InitAcceptance /\ [][NextAcceptance]_vars

-----------------------------------------------------------------------------
(* calculate_iou alone *)

\* the boxes with x1 <= x2 and y1 <= y2, those of zero area among them
IouBoxes ==
    {b \in (0 .. MaxCoord) \X (0 .. MaxCoord) \X (0 .. MaxCoord) \X (0 .. MaxCoord) :
        b[1] <= b[3] /\ b[2] <= b[4]}

\* one call on a fresh tracker: the return value is the fraction of
\* calculate_iou; the float division raises when the union is 0
CalculateIou(bbox1, bbox2) ==
    /\ last.op = "init"
    /\ last' = [op     |-> "calculate_iou",
                bbox1  |-> bbox1,
                bbox2  |-> bbox2,
                ret    |-> calculate_iou(bbox1, bbox2),
                raised |-> IF IouRaises(bbox1, bbox2) THEN "ZeroDivisionError" ELSE "none"]
    /\ UNCHANGED <<tracker, roi_manager, counter, now, seen, misses, frame, threads>>

NextIou == \E bbox1, bbox2 \in IouBoxes : CalculateIou(bbox1, bbox2)

SpecIou == Init /\ [][NextIou]_vars

-----------------------------------------------------------------------------
(* The registry's queries called directly *)

\* ids asked about: the zone 1, the line 2 and an id that names nothing
QueryIds == 1 .. 3

IsPointInRoi(point, roi_id) ==
    /\ last' = [op     |-> "is_point_in_roi",
                roi_id |-> roi_id,
                point  |-> point,
                ret    |-> is_point_in_roi(roi_manager, point, roi_id),
                raised |-> "none"]
    /\ UNCHANGED <<tracker, roi_manager, counter, now, seen, misses, frame, threads>>

CheckLineCrossingOf(prev_point, curr_point, line_id) ==
    /\ last' = [op      |-> "check_line_crossing",
                line_id |-> line_id,
                prev    |-> prev_point,
                curr    |-> curr_point,
                ret     |-> check_line_crossing(roi_manager, prev_point, curr_point, line_id),
                raised  |-> "none"]
    /\ UNCHANGED <<tracker, roi_manager, counter, now, seen, misses, frame, threads>>

NextQueries ==
    \/ \E point \in Centroids, roi_id \in QueryIds : IsPointInRoi(point, roi_id)
    \/ \E prev_point, curr_point \in LineCentroids, line_id \in QueryIds :
          CheckLineCrossingOf(prev_point, curr_point, line_id)
    \/ \E roi_id \in DOMAIN roi_manager.rois, enabled \in BOOLEAN :
          SetRoiEnabled(roi_id, enabled)
    \/ \E line_id \in DOMAIN roi_manager.counting_lines, enabled \in BOOLEAN :
          SetLineEnabled(line_id, enabled)

SpecQueries == InitCounter /\ [][NextQueries]_vars

-----------------------------------------------------------------------------
(* The registry's zones and lines enumerated, and what the caller does with the
   returned dict *)

\* dict.copy() is a shallow copy: a new dict whose values are the very dicts
\* the registry stores.  The returned dict is kept as key -> reference, the
\* reference being the id under which the registry stores the shared dict, or 0
\* for a dict the caller made
GetAll(table) ==
    /\ last' = [op     |-> "get_all",
                table  |-> table,
                ret    |-> [id \in DOMAIN roi_manager[table] |-> id],
                raised |-> "none"]
    /\ UNCHANGED <<tracker, roi_manager, counter, now, seen, misses, frame, threads>>

get_all_rois == GetAll("rois")

get_all_counting_lines == GetAll("counting_lines")

HoldsReturned == last.op \in {"get_all", "returned_del", "returned_put", "returned_set"}

\* del returned[key]
ReturnedDel(key) ==
    /\ HoldsReturned
    /\ key \in DOMAIN last.ret
    /\ last' = [last EXCEPT !.op = "returned_del", !.ret = Del(@, key)]
    /\ UNCHANGED <<tracker, roi_manager, counter, now, seen, misses, frame, threads>>

\* returned[key] = {...}
ReturnedPut(key) ==
    /\ HoldsReturned
    /\ last' = [last EXCEPT !.op = "returned_put", !.ret = Put(@, key, 0)]
    /\ UNCHANGED <<tracker, roi_manager, counter, now, seen, misses, frame, threads>>

\* the fields a caller may assign and the values it gives them
FieldValues ==
    {<<"enabled", FALSE>>, <<"enabled", TRUE>>, <<"direction", "north_south">>,
     <<"name", <<"ROI", 0>>>>, <<"points", <<>>>>}

\* returned[key][field] = value: an assignment to the dict the entry refers to
ReturnedSet(key, field, value) ==
    /\ HoldsReturned
    /\ key \in DOMAIN last.ret
    /\ roi_manager' = (IF last.ret[key] = 0 THEN roi_manager
                       ELSE [roi_manager EXCEPT ![last.table][last.ret[key]][field] = value])
    /\ last' = [last EXCEPT !.op = "returned_set"]
    /\ UNCHANGED <<tracker, counter, now, seen, misses, frame, threads>>

NextEnumerate ==
    \/ get_all_rois
    \/ get_all_counting_lines
    \/ \E key \in QueryIds : ReturnedDel(key)
    \/ \E key \in QueryIds : ReturnedPut(key)
    \/ \E key \in QueryIds, fv \in FieldValues : ReturnedSet(key, fv[1], fv[2])

SpecEnumerate == InitSwitched /\ [][NextEnumerate]_vars

-----------------------------------------------------------------------------
(* Properties of the registry *)

\* the point count of the buffer does not make a shape of the mode being edited
InvalidCount(self) ==
    \/ self.editing_mode = "ROI" /\ Len(self.temp_points) < 3
    \/ self.editing_mode = "LINE" /\ Len(self.temp_points) # 2

\* the lists of points that bring the buffer to the smallest valid count
Completions(self) ==
    LET need == (IF self.editing_mode = "ROI" THEN 3 ELSE 2) - Len(self.temp_points)
    IN {points \in SeqUpTo(EditPoints, 3) : Len(points) = need}

\* the stored shapes of the mode being edited
ShapesOfMode(self, mode) == IF mode = "ROI" THEN self.rois ELSE self.counting_lines

\* C11: finish_editing with too few points while editing a zone, or with other
\* than 2 points while editing a line, reports failure with no id and changes
\* nothing in the registry; adding the missing points and finishing again then
\* stores the shape made of the buffered points followed by the added ones
C11_FailedFinishKeepsState ==
    [][(last'.op = "finish_editing" /\ InvalidCount(roi_manager)) =>
          /\ last'.ret = FALSE
          /\ last'.id = "None"
          /\ roi_manager' = roi_manager
          /\ \A points \in Completions(roi_manager') :
                LET mode == roi_manager'.editing_mode
                    r == finish_editing(AddPoints(roi_manager', points))
                IN /\ r.ret
                   /\ r.id \in DOMAIN ShapesOfMode(r.self, mode)
                   /\ r.id \notin DOMAIN ShapesOfMode(roi_manager', mode)
                   /\ ShapesOfMode(r.self, mode)[r.id].points
                         = roi_manager'.temp_points \o points]_vars

\* a refused finish of a zone with two points buffered, the session still open
C11_Witness ==
    /\ last.op = "finish_editing"
    /\ last.ret = FALSE
    /\ roi_manager.editing_mode = "ROI"
    /\ Len(roi_manager.temp_points) = 2

C13_StoredShapesAreValid ==
    /\ \A roi_id \in DOMAIN roi_manager.rois : Len(roi_manager.rois[roi_id].points) >= 3
    /\ \A line_id \in DOMAIN roi_manager.counting_lines :
          Len(roi_manager.counting_lines[line_id].points) = 2

\* an update_line that found its line
C13_Witness ==
    /\ last.op = "update_line"
    /\ last.ret = TRUE
    /\ \E line_id \in DOMAIN roi_manager.counting_lines :
          Len(roi_manager.counting_lines[line_id].points) = 2

\* C14: cancel_editing while editing a zone or a line reports success, empties
\* the buffer, leaves the registry idle and the stored zones and lines as they
\* were; while idle it reports failure and changes nothing
C14_CancelDiscardsBuffer ==
    [][last'.op = "cancel_editing" =>
          IF roi_manager.editing_mode = "NONE"
          THEN last'.ret = FALSE /\ roi_manager' = roi_manager
          ELSE /\ last'.ret = TRUE
               /\ roi_manager'.editing_mode = "NONE"
               /\ roi_manager'.temp_points = <<>>
               /\ roi_manager'.rois = roi_manager.rois
               /\ roi_manager'.counting_lines = roi_manager.counting_lines]_vars

\* a cancelled session in a registry that holds a shape
C14_Witness ==
    /\ last.op = "cancel_editing"
    /\ last.ret = TRUE
    /\ roi_manager.temp_points = <<>>
    /\ DOMAIN roi_manager.rois \cup DOMAIN roi_manager.counting_lines # {}

\* C15: add_point(p) while editing a line with 2 points buffered leaves 2 points
\* in the buffer, p among them
C15_ThirdPointReplaces ==
    [][(last'.op = "add_point" /\ roi_manager.editing_mode = "LINE"
           /\ Len(roi_manager.temp_points) = 2) =>
          /\ Len(roi_manager'.temp_points) = 2
          /\ last'.point \in Range(roi_manager'.temp_points)]_vars

\* the registry with the zone roi_id, or the line line_id, enabled
WithRoiEnabled(self, roi_id) == [self EXCEPT !.rois[roi_id].enabled = TRUE]
WithLineEnabled(self, line_id) == [self EXCEPT !.counting_lines[line_id].enabled = TRUE]

\* C16 as stated: is_point_in_roi on a disabled zone returns False and
\* check_line_crossing on a disabled line returns 0
C16_DisabledQueriesAnswerNothing ==
    [][/\ (/\ last'.op = "is_point_in_roi"
           /\ last'.roi_id \in DOMAIN roi_manager.rois
           /\ ~roi_manager.rois[last'.roi_id].enabled) => last'.ret = FALSE
       /\ (/\ last'.op = "check_line_crossing"
           /\ last'.line_id \in DOMAIN roi_manager.counting_lines
           /\ ~roi_manager.counting_lines[last'.line_id].enabled) => last'.ret = 0]_vars

\* C16: is_point_in_roi on a disabled zone and check_line_crossing on a disabled
\* line return what they return for the same zone or line enabled: for the
\* square zone, whether the point lies in the square
C16_DisabledQueriesAnswerGeometry ==
    [][/\ (/\ last'.op = "is_point_in_roi"
           /\ last'.roi_id \in DOMAIN roi_manager.rois
           /\ ~roi_manager.rois[last'.roi_id].enabled) =>
             /\ last'.ret = is_point_in_roi(WithRoiEnabled(roi_manager, last'.roi_id),
                                            last'.point, last'.roi_id)
             /\ last'.ret = (last'.point[1] \in 0 .. 10 /\ last'.point[2] \in 0 .. 10)
       /\ (/\ last'.op = "check_line_crossing"
           /\ last'.line_id \in DOMAIN roi_manager.counting_lines
           /\ ~roi_manager.counting_lines[last'.line_id].enabled) =>
             /\ last'.ret = check_line_crossing(WithLineEnabled(roi_manager, last'.line_id),
                                                last'.prev, last'.curr, last'.line_id)
             /\ (last'.prev[1] < 50 /\ last'.curr[1] > 50) => last'.ret # 0]_vars

\* a disabled zone asked about a point inside it
C16_Witness ==
    /\ last.op = "is_point_in_roi"
    /\ last.roi_id \in DOMAIN roi_manager.rois
    /\ ~roi_manager.rois[last.roi_id].enabled
    /\ last.point = <<5, 5>>
    /\ last.ret = TRUE

\* C17: is_point_in_roi with an id that is not a stored zone returns False and
\* check_line_crossing with an id that is not a stored line returns 0; neither
\* raises nor changes the registry
C17_UnknownIdsAnswerNothing ==
    [][/\ (last'.op = "is_point_in_roi" /\ last'.roi_id \notin DOMAIN roi_manager.rois) =>
             last'.ret = FALSE /\ last'.raised = "none" /\ roi_manager' = roi_manager
       /\ (/\ last'.op = "check_line_crossing"
           /\ last'.line_id \notin DOMAIN roi_manager.counting_lines) =>
             last'.ret = 0 /\ last'.raised = "none" /\ roi_manager' = roi_manager]_vars

\* a point of the stored zone asked about under an id that names no zone
C17_Witness ==
    /\ last.op = "is_point_in_roi"
    /\ last.roi_id \notin DOMAIN roi_manager.rois
    /\ last.point = <<5, 5>>
    /\ last.ret = FALSE
    /\ DOMAIN roi_manager.rois # {}

-----------------------------------------------------------------------------
(* Properties of the counter on zones and lines that are switched off *)

\* the update emits no event for the zone or line and leaves its counter alone
SkippedZone(roi_id) ==
    /\ EventsAt(last'.results.roi_events, roi_id) = {}
    /\ Get(counter'.roi_counts, roi_id, 0) = Get(counter.roi_counts, roi_id, 0)

SkippedLine(line_id) ==
    /\ EventsAt(last'.results.line_events, line_id) = {}
    /\ Get(counter'.line_counts, line_id, 0) = Get(counter.line_counts, line_id, 0)

\* the update counts at the zone every active track inside it that was not a
\* member, and at the line every active track with a previous position that
\* crosses it
ProcessedZone(roi_id) ==
    Get(counter'.roi_counts, roi_id, 0) - Get(counter.roi_counts, roi_id, 0)
       = Cardinality({object_id \in DOMAIN last'.active :
            /\ is_point_in_roi(roi_manager, last'.active[object_id], roi_id)
            /\ object_id \notin Get(counter.objects_in_roi, roi_id, {})})

ProcessedLine(line_id) ==
    Get(counter'.line_counts, line_id, 0) - Get(counter.line_counts, line_id, 0)
       = Cardinality({object_id \in DOMAIN last'.active \cap DOMAIN counter.last_positions :
            check_line_crossing(roi_manager, counter.last_positions[object_id],
                                last'.active[object_id], line_id) # 0})

DisabledRois == DOMAIN roi_manager.rois \ EnabledIds(roi_manager.rois)
DisabledLines == DOMAIN roi_manager.counting_lines \ EnabledIds(roi_manager.counting_lines)

SkippedAndProcessed ==
    /\ \A roi_id \in DisabledRois : SkippedZone(roi_id)
    /\ \A line_id \in DisabledLines : SkippedLine(line_id)
    /\ \A roi_id \in EnabledIds(roi_manager.rois) : ProcessedZone(roi_id)
    /\ \A line_id \in EnabledIds(roi_manager.counting_lines) : ProcessedLine(line_id)

\* C18 as stated: an update emits no event for a disabled zone or line and
\* leaves its counter and the zone's membership set as they were, while the
\* enabled zones and lines are processed
C18_DisabledLeftUnchanged ==
    [][UpdateReturned =>
          /\ SkippedAndProcessed
          /\ \A roi_id \in DisabledRois :
                Get(counter'.objects_in_roi, roi_id, {})
                   = Get(counter.objects_in_roi, roi_id, {})]_vars

\* C18: an update emits no event for a disabled zone or line and leaves its
\* counter as it was; the membership set of a disabled zone gains nothing and
\* loses exactly its tracks that are not active in the input; the enabled zones
\* and lines are processed
C18_DisabledOnlyPurged ==
    [][UpdateReturned =>
          /\ SkippedAndProcessed
          /\ \A roi_id \in DisabledRois :
                Get(counter'.objects_in_roi, roi_id, {})
                   = Get(counter.objects_in_roi, roi_id, {}) \cap DOMAIN last'.active]_vars

\* an update that counted a crossing of the enabled line by a track that the
\* disabled zone had counted before, the zone's counter still 1
C18_Witness ==
    /\ last.op = "counter_update"
    /\ last.raised = "none"
    /\ DisabledRois # {}
    /\ last.results.line_events # <<>>
    /\ last.results.roi_events = <<>>
    /\ \A roi_id \in DisabledRois : Get(counter.roi_counts, roi_id, 0) = 1

-----------------------------------------------------------------------------
(* Properties of the retained events *)

\* the events of a list that are younger than event_duration at time t
Young(events, t) == SelectSeq(events, LAMBDA event : t - event.timestamp < event_duration)

\* C19: after every update that returns, whether or not it emitted events, the
\* retained list has at most max_events entries, each younger than
\* event_duration; it is the tail of the list of events retained before followed
\* by those emitted now, without the ones that are too old, and an entry of that
\* list is left out only when max_events newer ones are kept; the update returns
\* a copy of it
C19_RetainedEventsBounded ==
    [][UpdateReturned =>
          LET emitted == counter.count_events \o last'.results.roi_events
                            \o last'.results.line_events
              young == Young(emitted, now')
              kept == counter'.count_events
          IN /\ Len(kept) <= max_events
             /\ \A k \in DOMAIN kept : now' - kept[k].timestamp < event_duration
             /\ Len(kept) <= Len(young)
             /\ kept = SubSeq(young, Len(young) - Len(kept) + 1, Len(young))
             /\ Len(kept) < Len(young) => Len(kept) = max_events
             /\ last'.results.count_events = kept]_vars

\* an update after which max_events events are retained, the oldest of them the
\* second entry the zone counted
C19_Witness ==
    /\ last.op = "counter_update"
    /\ last.raised = "none"
    /\ last.results.roi_events # <<>>
    /\ Len(counter.count_events) = max_events
    /\ counter.count_events[1].count = 2
    /\ counter.count_events[max_events].count = max_events + 1

-----------------------------------------------------------------------------
(* Properties of export_counts *)

\* C20: export_counts changes no counter, membership set, previous position or
\* retained event, returns the counters of the zones and lines as they are, and
\* a second call right after a first returns the same counters
C20_ExportIsPureRead ==
    [][last'.op = "export_counts" =>
          /\ counter' = counter
          /\ last'.results.roi_counts = counter.roi_counts
          /\ last'.results.line_counts = counter.line_counts
          /\ last.op = "export_counts" =>
                /\ last'.results.roi_counts = last.results.roi_counts
                /\ last'.results.line_counts = last.results.line_counts]_vars

\* an export made when the zone and the line have counted and a track is a
\* member of the zone
C20_Witness ==
    /\ last.op = "export_counts"
    /\ Total(last.results.roi_counts) >= 1
    /\ Total(last.results.line_counts) >= 1
    /\ counter.last_positions # <<>>
    /\ counter.count_events # <<>>

-----------------------------------------------------------------------------
(* Properties of reset_counts *)

\* C21: reset_counts leaves every zone and line with counter 0, every zone with
\* an empty membership set and the list of retained events empty, and does not
\* touch the registry: the zones and lines it holds are the same
C21_ResetClearsCountsOnly ==
    [][last'.op = "counter_reset" =>
          /\ \A roi_id \in DOMAIN roi_manager.rois :
                /\ Get(counter'.roi_counts, roi_id, 0) = 0
                /\ Get(counter'.objects_in_roi, roi_id, {}) = {}
          /\ \A line_id \in DOMAIN roi_manager.counting_lines :
                Get(counter'.line_counts, line_id, 0) = 0
          /\ Total(counter'.roi_counts) = 0
          /\ Total(counter'.line_counts) = 0
          /\ counter'.count_events = <<>>
          /\ roi_manager' = roi_manager
          /\ DOMAIN roi_manager'.rois # {}
          /\ DOMAIN roi_manager'.counting_lines # {}]_vars

\* a reset made after a track was counted; the zone and the line are still there
C21_Witness ==
    /\ last.op = "counter_reset"
    /\ counter.last_positions # <<>>
    /\ counter.count_events = <<>>
    /\ Total(counter.roi_counts) = 0
    /\ \E roi_id \in DOMAIN roi_manager.rois :
          is_point_in_roi(roi_manager, <<5, 5>>, roi_id)
    /\ DOMAIN roi_manager.counting_lines # {}

-----------------------------------------------------------------------------
(* Properties of the tracker's snapshot, deregister and reset *)

\* the resident tracks whose disappearance counter is n
ResidentWith(self, n) == {id \in DOMAIN self.objects : Get(self.disappeared, id, 0) = n}

\* C22: the results of an update list, once each and with their boxes, exactly
\* the resident tracks whose disappearance counter is 0; a resident track whose
\* counter is from 1 to max_disappeared is not listed and has the box, class and
\* trajectory it had before the update; no resident track has a higher counter
C22_SnapshotListsActiveTracks ==
    [][(last'.op = "update" /\ last'.raised = "none") =>
          LET object_ids == last'.results.object_ids
          IN /\ Range(object_ids) = ResidentWith(tracker', 0)
             /\ Len(object_ids) = Cardinality(Range(object_ids))
             /\ \A i \in DOMAIN object_ids :
                   last'.results.bboxes[i] = tracker'.objects[object_ids[i]]
             /\ \A id \in DOMAIN tracker'.objects :
                   /\ Get(tracker'.disappeared, id, 0) <= max_disappeared
                   /\ Get(tracker'.disappeared, id, 0) >= 1 =>
                         /\ id \notin Range(object_ids)
                         /\ id \in DOMAIN tracker.objects
                         /\ tracker'.objects[id] = tracker.objects[id]
                         /\ tracker'.class_ids[id] = tracker.class_ids[id]
                         /\ tracker'.class_names[id] = tracker.class_names[id]
                         /\ tracker'.trajectories[id] = tracker.trajectories[id]]_vars

\* an update that lists one track and leaves out a resident one that was missed
C22_Witness ==
    /\ last.op = "update"
    /\ last.raised = "none"
    /\ last.results.object_ids # <<>>
    /\ \E id \in DOMAIN tracker.objects :
          /\ tracker.disappeared[id] = max_disappeared
          /\ id \notin Range(last.results.object_ids)

\* the tables of the tracker that hold an entry for the id
TablesWith(self, id) ==
    {name \in {"objects", "disappeared", "class_ids", "class_names", "trajectories"} :
        id \in DOMAIN self[name]}

\* C23: deregister of a resident track, whether register or update created it,
\* raises nothing and leaves no entry for the id in the box, disappearance,
\* class and trajectory tables
C23_DeregisterRemovesAllState ==
    [][(last'.op = "deregister" /\ last'.object_id \in DOMAIN tracker.objects) =>
          /\ last'.raised = "none"
          /\ TablesWith(tracker', last'.object_id) = {}]_vars

\* C24: reset leaves no entry in the box, disappearance, class and trajectory
\* tables and an empty snapshot, and the tracks created next, before any other
\* id is handed out, are numbered from 0
C24_ResetRestartsNumbering ==
    [][/\ last'.op = "tracker_reset" =>
             /\ \A id \in 0 .. MaxIds : TablesWith(tracker', id) = {}
             /\ get_tracking_results(tracker').results.object_ids = <<>>
             /\ tracker'.next_object_id = 0
       /\ (last'.op \in {"register", "update"} /\ last'.created >= 1 /\ seen = {}) =>
             DOMAIN tracker'.objects \ DOMAIN tracker.objects = 0 .. (last'.created - 1)]_vars

\* a reset of a tracker that had handed out ids
C24_Witness ==
    /\ last.op = "tracker_reset"
    /\ last.numbered >= 1
    /\ tracker.objects = <<>>
    /\ tracker.next_object_id = 0

-----------------------------------------------------------------------------
(* Properties of calculate_iou *)

Area(bbox) == (bbox[3] - bbox[1]) * (bbox[4] - bbox[2])

\* C25: calculate_iou raises for no two boxes with x1 <= x2 and y1 <= y2, and
\* returns 0 when a box has zero area
C25_IouNeverDividesByZero ==
    last.op = "calculate_iou" =>
        /\ last.raised = "none"
        /\ (Area(last.bbox1) = 0 \/ Area(last.bbox2) = 0) => last.ret[1] = 0

-----------------------------------------------------------------------------
(* Properties of the enumeration *)

\* C26: adding or removing an entry of the dict returned by get_all_rois or
\* get_all_counting_lines, or assigning a field of a zone or line in it, leaves
\* the zones and lines of the registry as they were
C26_ReturnedIsSnapshot ==
    [][last'.op \in {"returned_del", "returned_put", "returned_set"} =>
          roi_manager' = roi_manager]_vars

-----------------------------------------------------------------------------
(* Properties of the pairs an update accepts *)

AtThreshold(iou) == iou[1] * MinIouDen = MinIouNum * iou[2]

\* C27: the pairs an update accepts are a partial matching, no track and no
\* detection in two of them, and each has an IoU strictly above
\* min_iou_threshold: a pair whose IoU is the threshold itself is not accepted
C27_AcceptedPairsArePartialMatching ==
    (last.op = "match" /\ last.raised = "none") =>
        /\ \A i, j \in DOMAIN last.matches :
              i # j => /\ last.matches[i][1] # last.matches[j][1]
                       /\ last.matches[i][2] # last.matches[j][2]
        /\ \A m \in Range(last.matches) :
              LET iou == calculate_iou(last.existing[m[1]], last.bboxes[m[2]])
              IN /\ m[1] \in DOMAIN last.existing
                 /\ m[2] \in DOMAIN last.bboxes
                 /\ iou[1] * MinIouDen > MinIouNum * iou[2]
                 /\ ~AtThreshold(iou)

\* an update that accepted a pair and did not accept a track and a detection
\* whose IoU is the threshold itself
C27_Witness ==
    /\ last.op = "match"
    /\ last.raised = "none"
    /\ last.matches # <<>>
    /\ \E i \in DOMAIN last.existing, j \in DOMAIN last.bboxes :
          /\ AtThreshold(calculate_iou(last.existing[i], last.bboxes[j]))
          /\ <<i, j>> \notin Range(last.matches)

\* C28: no accepted pair has its detection's centroid further than max_distance
\* from the centroid of the track's box
C28_NoMatchBeyondMaxDistance ==
    (last.op = "match" /\ last.raised = "none") =>
        \A m \in Range(last.matches) :
            Distance2(get_center(last.existing[m[1]]), get_center(last.bboxes[m[2]]))
               <= max_distance * max_distance

-----------------------------------------------------------------------------
(* Properties of one update of the tracker *)

\* C29: a track that an update matches to a detection, whatever its
\* disappearance counter was, is resident after the update under the same id
\* with the detection's box, class id and class name, its counter 0 and the
\* detection's centroid last in its trajectory, and is listed in the snapshot
C29_MatchedTrackTakesDetection ==
    [][(last'.op = "update" /\ last'.raised = "none") =>
          \A m \in last'.matched :
             LET object_id == m[1]
                 det == last'.dets[m[2]]
             IN /\ object_id \in DOMAIN tracker.objects
                /\ object_id \in DOMAIN tracker'.objects
                /\ tracker'.objects[object_id] = det.box
                /\ tracker'.class_ids[object_id] = det.cls[1]
                /\ tracker'.class_names[object_id] = det.cls[2]
                /\ tracker'.disappeared[object_id] = 0
                /\ tracker'.trajectories[object_id]
                      [Len(tracker'.trajectories[object_id])] = get_center(det.box)
                /\ Len(tracker'.trajectories[object_id]) <= track_history_size
                /\ object_id \in Range(last'.results.object_ids)]_vars

\* an update that matched a track whose counter was above 0 to a detection of
\* another box
C29_Witness ==
    /\ last.op = "update"
    /\ last.raised = "none"
    /\ \E object_id \in last.revived :
          /\ tracker.disappeared[object_id] = 0
          /\ object_id \in Range(last.results.object_ids)

\* C30: an update with no detections raises the disappearance counter of every
\* resident track by 1, a track made by a direct call of register included,
\* deregisters the tracks whose counter is then above max_disappeared, creates
\* no track and returns an empty snapshot
C30_EmptyUpdateCountsEveryTrack ==
    [][(last'.op = "update" /\ last'.dets = <<>>) =>
          /\ last'.raised = "none"
          /\ \A id \in DOMAIN tracker.objects :
                IF Get(tracker.disappeared, id, 0) + 1 > max_disappeared
                THEN id \notin DOMAIN tracker'.objects
                ELSE /\ id \in DOMAIN tracker'.objects
                     /\ Get(tracker'.disappeared, id, 0) = Get(tracker.disappeared, id, 0) + 1
          /\ DOMAIN tracker'.objects \subseteq DOMAIN tracker.objects
          /\ last'.results.object_ids = <<>>]_vars

(* Properties of the trajectories *)

\* the last n entries of a list, oldest first
MostRecent(s, n) == IF Len(s) <= n THEN s ELSE SubSeq(s, Len(s) - n + 1, Len(s))

C32_ExitUncountedReentryCounted ==
    [][UpdateReturned =>
          \A roi_id \in EnabledIds(roi_manager.rois) :
          \A object_id \in DOMAIN last'.active \cap DOMAIN counter.last_positions :
             LET was_in == is_point_in_roi(roi_manager,
                                           counter.last_positions[object_id], roi_id)
                 is_in == is_point_in_roi(roi_manager, last'.active[object_id], roi_id)
                 member == object_id \in Get(counter.objects_in_roi, roi_id, {})
                 all == EventsAt(last'.results.roi_events, roi_id)
                 mine == EventsFor(last'.results.roi_events, roi_id, object_id)
                 grown == Get(counter'.roi_counts, roi_id, 0)
                             - Get(counter.roi_counts, roi_id, 0)
             IN /\ (was_in /\ ~is_in) =>
                      /\ mine = {}
                      /\ grown = Cardinality(all)
                      /\ object_id \notin Get(counter'.objects_in_roi, roi_id, {})
                /\ (is_in /\ ~member) =>
                      /\ Cardinality(mine) = 1
                      /\ grown = Cardinality(all)
                      /\ object_id \in Get(counter'.objects_in_roi, roi_id, {})]_vars

\* an update has taken a counted track out of the membership of the enabled
\* zone because its centroid is outside now, and has counted nothing
C32_Witness ==
    /\ last.op = "counter_update"
    /\ last.raised = "none"
    /\ last.results.roi_events = <<>>
    /\ \E x \in last.removed :
          /\ x[1] \in EnabledIds(roi_manager.rois)
          /\ x[2] \in DOMAIN last.active
          /\ ~is_point_in_roi(roi_manager, last.active[x[2]], x[1])
          /\ x[2] \notin counter.objects_in_roi[x[1]]
          /\ Get(counter.roi_counts, x[1], 0) >= 1
          /\ \E k \in DOMAIN counter.count_events :
                /\ counter.count_events[k].id = x[1]
                /\ counter.count_events[k].object_id = x[2]

(* Properties of the count an event carries *)

\* the events of a list that belong to the zone or line id, in order
EventsWithId(events, type, id) ==
    SelectSeq(events, LAMBDA event : event.type = type /\ event.id = id)

\* the k-th event of the list carries the count start + k
CountsFrom(events, start) == \A k \in DOMAIN events : events[k].count = start + k

\* C33: the events an update emits for a zone or a line carry, in order, the
\* counts that follow the counter the zone or line had before the update, and
\* the counter ends at the last of them; and, no event having expired, the
\* retained events of every zone and line are as many as its counter and carry
\* 1, 2, 3, ... in order.
C33_EventCarriesRunningCount ==
    [][/\ UpdateReturned =>
             /\ \A roi_id \in DOMAIN roi_manager.rois :
                   LET emitted == EventsWithId(last'.results.roi_events, "roi", roi_id)
                       before == Get(counter.roi_counts, roi_id, 0)
                   IN /\ CountsFrom(emitted, before)
                      /\ Get(counter'.roi_counts, roi_id, 0) = before + Len(emitted)
             /\ \A line_id \in DOMAIN roi_manager.counting_lines :
                   LET emitted == EventsWithId(last'.results.line_events, "line", line_id)
                       before == Get(counter.line_counts, line_id, 0)
                   IN /\ CountsFrom(emitted, before)
                      /\ Get(counter'.line_counts, line_id, 0) = before + Len(emitted)
       /\ \A roi_id \in DOMAIN roi_manager.rois :
             LET held == EventsWithId(counter'.count_events, "roi", roi_id)
             IN CountsFrom(held, 0) /\ Len(held) = Get(counter'.roi_counts, roi_id, 0)
       /\ \A line_id \in DOMAIN roi_manager.counting_lines :
             LET held == EventsWithId(counter'.count_events, "line", line_id)
             IN CountsFrom(held, 0) /\ Len(held) = Get(counter'.line_counts, line_id, 0)
      ]_vars

\* an update has emitted the second event of the zone: the event carries 2, the
\* counter is 2 and the zone's first event, carrying 1, is held before it
C33_Witness ==
    /\ last.op = "counter_update"
    /\ last.raised = "none"
    /\ \E roi_id \in DOMAIN roi_manager.rois :
          /\ Get(counter.roi_counts, roi_id, 0) = 2
          /\ \E k \in DOMAIN last.results.roi_events :
                /\ last.results.roi_events[k].id = roi_id
                /\ last.results.roi_events[k].count = 2
          /\ \E i, j \in DOMAIN counter.count_events :
                /\ i < j
                /\ counter.count_events[i].id = roi_id
                /\ counter.count_events[i].count = 1
                /\ counter.count_events[j] \in Range(last.results.roi_events)

(* Properties of the buffer of points being edited *)

\* the buffer is empty outside an editing session and holds at most two
\* points while a line is edited
BufferInBounds(self) ==
    /\ self.editing_mode = "NONE" => self.temp_points = <<>>
    /\ self.editing_mode = "LINE" => Len(self.temp_points) <= 2

\* C34: before and after every call of an editing session the buffer is empty
\* when no session is open and holds at most 2 points when a line is edited;
\* add_point outside a session returns False and changes nothing; and
\* start_roi_editing and start_line_editing, whatever the state they are
\* called in, leave the session of their kind open with an empty buffer.
C34_BufferBounded ==
    [][/\ BufferInBounds(roi_manager)
       /\ BufferInBounds(roi_manager')
       /\ (last'.op = "add_point" /\ roi_manager.editing_mode = "NONE") =>
             (last'.ret = FALSE /\ roi_manager' = roi_manager)
       /\ last'.op = "start_roi_editing" =>
             (roi_manager'.editing_mode = "ROI" /\ roi_manager'.temp_points = <<>>)
       /\ last'.op = "start_line_editing" =>
             (roi_manager'.editing_mode = "LINE" /\ roi_manager'.temp_points = <<>>)
      ]_vars

\* add_point was called on a line that had its two points: it returned True
\* and the buffer still holds two points, the new one not among them
C34_Witness ==
    /\ last.op = "add_point"
    /\ last.ret = TRUE
    /\ roi_manager.editing_mode = "LINE"
    /\ Len(roi_manager.temp_points) = 2
    /\ last.point \notin Range(roi_manager.temp_points)

(* Properties of the threads *)

\* what the GUI thread does to the tracker, the counter and the registry
GuiWrites ==
    {"reset_components", "start_roi_editing", "start_line_editing", "finish_editing",
     "cancel_editing"}

\* C35: the GUI thread resets the tracker and the counter, and starts, finishes
\* or cancels an edit of the registry, only when no processing thread is
\* between its call of tracker.update and the return of its call of
\* counter.update for a frame.
C35_GuiWritesOutsideTheCycle ==
    [][(last'.op \in GuiWrites /\ last'.thread = "gui") =>
          \A i \in DOMAIN threads.workers : threads.workers[i].at # "tracked"]_vars

(* Properties of the snapshot an update returns *)

\* C36: the snapshot returned by an update with n >= 1 detections lists n
\* tracks with pairwise distinct ids, and the detections can be paired off with
\* them one to one so that each track has its detection's box and is either
\* the existing track the detection was matched to or a track made by this
\* update for a detection that was matched to none.
C36_SnapshotHasOneTrackPerDetection ==
    (last.op = "match" /\ last.raised = "none") =>
        LET ids == last.results.object_ids
            n == Len(last.bboxes)
            \* the tracks of Init are numbered 0, 1, ... in the order of the rows
            existing == {row - 1 : row \in DOMAIN last.existing}
        IN /\ Len(ids) = n
           /\ \A i, j \in DOMAIN ids : i # j => ids[i] # ids[j]
           /\ \E f \in [1..n -> 1..n] :
                 /\ \A i, j \in 1..n : i # j => f[i] # f[j]
                 /\ \A j \in 1..n :
                       /\ last.results.bboxes[f[j]] = last.bboxes[j]
                       /\ IF \E m \in Range(last.matches) : m[2] = j
                          THEN /\ ids[f[j]] \in existing
                               /\ Cardinality({m \in Range(last.matches) : m[2] = j}) = 1
                               /\ <<ids[f[j]] + 1, j>> \in Range(last.matches)
                          ELSE ids[f[j]] \notin existing

\* an update with two detections has matched one of them to one of two tracks
\* and made a track for the other
C36_Witness ==
    /\ last.op = "match"
    /\ last.raised = "none"
    /\ Len(last.bboxes) = 2
    /\ Len(last.existing) = 2
    /\ Len(last.matches) = 1
    /\ Len(last.results.object_ids) = 2
    /\ \E i \in DOMAIN last.results.object_ids : last.results.object_ids[i] = 2

(* Properties of the counts an update returns *)

\* C37: the roi_counts and line_counts in the result of an update are the
\* counters as export_counts returns them right after the update, and are at
\* least the count of every event in the result's roi_events and line_events.
C37_ReturnedCountsAreCurrent ==
    (last.op = "counter_update" /\ last.raised = "none") =>
        /\ last.results.roi_counts = export_counts(counter, now).roi_counts
        /\ last.results.line_counts = export_counts(counter, now).line_counts
        /\ \A k \in DOMAIN last.results.roi_events :
              Get(last.results.roi_counts, last.results.roi_events[k].id, 0)
                 >= last.results.roi_events[k].count
        /\ \A k \in DOMAIN last.results.line_events :
              Get(last.results.line_counts, last.results.line_events[k].id, 0)
                 >= last.results.line_events[k].count

(* Properties of the counter's reset on the previous positions *)

\* C38: after reset the counter holds no previous position of any track, and
\* the first update after a reset emits no line event.
C38_ResetForgetsPositions ==
    [][/\ last'.op = "counter_reset" => counter'.last_positions = <<>>
       /\ (last.op = "counter_reset" /\ UpdateReturned) =>
             last'.results.line_events = <<>>]_vars

(* Properties of the counter across missed detections *)

\* C39: a track that was a member of an enabled zone when an update without it
\* among the active tracks (a frame in which the tracker did not match it)
\* took its records away, and that is active again in the next update with its
\* centroid inside the zone, gets no event of the zone in that update, and the
\* zone's counter grows only by the events of other tracks.
C39_StayCountedOnceAcrossMisses ==
    [][(last.op = "counter_update" /\ UpdateReturned) =>
          \A x \in last.removed :
             (/\ x[2] \notin DOMAIN last.active
              /\ x[1] \in EnabledIds(roi_manager.rois)
              /\ x[2] \in DOMAIN last'.active
              /\ is_point_in_roi(roi_manager, last'.active[x[2]], x[1]))
             => /\ EventsFor(last'.results.roi_events, x[1], x[2]) = {}
                /\ Get(counter'.roi_counts, x[1], 0) - Get(counter.roi_counts, x[1], 0)
                      = Cardinality(EventsAt(last'.results.roi_events, x[1]))]_vars

(* Properties of check_line_crossing on a movement and its reverse *)

\* C40: for every line and all integer points a and b, check_line_crossing
\* reports a crossing (nonzero) for the movement a -> b exactly when it reports
\* one for b -> a, and reports none when a = b.
C40_CrossingIsSymmetric ==
    last.op = "check_both_ways" =>
        /\ (last.there # 0) <=> (last.back # 0)
        /\ last.a = last.b => last.there = 0

====
